---- MODULE Spec2Model ----
(***************************************************************************)
(* Model of hexrd/rotations.py: quaternion algebra, rotation-matrix        *)
(* conversions, symmetry reduction, misorientation and fiber generation.   *)
(*                                                                         *)
(* Numbers.  The functions are batch transformations over real arrays.     *)
(* Every real that occurs here is of the form a / sqrt(r) with a an        *)
(* integer and r a positive integer, so arithmetic is exact: a vector is   *)
(* a record [c |-> <<a1, ..., ak>>, r |-> r] standing for c / sqrt(r),      *)
(* kept in lowest terms (Surd).  A (4, n) array is a sequence of n         *)
(* columns.  A rotation matrix has rational entries: [m |-> rows,          *)
(* den |-> d] standing for m / d.                                          *)
(*                                                                         *)
(* The state is the last call made into the module: the operation, its     *)
(* arguments, what it returned and the exception it raised, if any; and,   *)
(* for the operations that are followed that far, the objects the caller   *)
(* passed as they are when the call ends.  A RotMatEuler handle is         *)
(* followed through its construction and the calls made on it, and a call  *)
(* of mapAngle through its loops, its locals held in frame.                *)
(***************************************************************************)
EXTENDS Integers, Sequences, FiniteSets, TLC

VARIABLES op, args, ret, exc, caller, handle, frame

vars == <<op, args, ret, exc, caller, handle, frame>>

(***************************************************************************)
(* Bounds of the model.                                                    *)
(***************************************************************************)
\* largest number of columns of a quaternion batch
MaxN == 2

(***************************************************************************)
(* Exact arithmetic on numbers a / sqrt(r).                                *)
(***************************************************************************)
Abs(x) == IF x < 0 THEN -x ELSE x

Sgn(x) == IF x < 0 THEN -1 ELSE IF x = 0 THEN 0 ELSE 1

RECURSIVE Gcd(_, _)
Gcd(a, b) == IF b = 0 THEN Abs(a) ELSE Gcd(b, a % Abs(b))

RECURSIVE GcdSeq(_)
GcdSeq(s) == IF s = <<>> THEN 0 ELSE Gcd(Head(s), GcdSeq(Tail(s)))

RECURSIVE SumSeq(_)
SumSeq(s) == IF s = <<>> THEN 0 ELSE Head(s) + SumSeq(Tail(s))

MaxOf(S) == CHOOSE x \in S : \A y \in S : y <= x

\* an array built elementwise, held as the tuple of its elements
Arr(f) == f \o <<>>

\* F(x) with x computed once, before F is applied to it
Eval(x, F(_)) == CHOOSE y \in {F(v) : v \in {x}} : TRUE

\* c / sqrt(r) in lowest terms: the largest k with k | c and k*k | r is
\* divided out; the zero vector is <<0, ..., 0>> / sqrt(1)
Surd(c, r) ==
    LET g == GcdSeq(c)
    IN  IF g = 0
        THEN [c |-> c, r |-> 1]
        ELSE LET k == MaxOf({d \in 1..g : g % d = 0 /\ r % (d * d) = 0})
             IN  [c |-> Arr([i \in DOMAIN c |-> c[i] \div k]), r |-> r \div (k * k)]

\* the squared Euclidean norm of c / sqrt(r) is NormSq(c) / r
NormSq(c) == SumSeq([i \in DOMAIN c |-> c[i] * c[i]])

IsUnit(x) == NormSq(x.c) = x.r

IsZero(x) == \A i \in DOMAIN x.c : x.c[i] = 0

Scale(k, x) == Surd(Arr([i \in DOMAIN x.c |-> k * x.c[i]]), x.r)

\* component i of a vector, as a number a / sqrt(r) in lowest terms
Comp(x, i) == Surd(<<x.c[i]>>, x.r)

\* first components compared, a / sqrt(r) < b / sqrt(s), through the
\* signed squares
Less(x, y) == x.c[1] * Abs(x.c[1]) * y.r < y.c[1] * Abs(y.c[1]) * x.r

\* a raw integer vector as an array column
Raw(c) == Surd(c, 1)

(***************************************************************************)
(* hexrd.matrixutil.unitVector: each column divided by its norm; a zero    *)
(* column is left as it is.                                                *)
(***************************************************************************)
unitColumn(x) == IF IsZero(x) THEN x ELSE Surd(x.c, NormSq(x.c))

unitVector(a) == Arr([j \in DOMAIN a |-> unitColumn(a[j])])

(***************************************************************************)
(* fixQuat, 2-d input: normalize, then flip the columns with q0 < 0.       *)
(***************************************************************************)
fixQuatNoFlip(q) == unitVector(q)

fixQuat(q) ==
    Eval(unitVector(q), LAMBDA qfix :
        Arr([j \in DOMAIN qfix |->
                IF qfix[j].c[1] < 0 THEN Scale(-1, qfix[j]) ELSE qfix[j]]))

(***************************************************************************)
(* invertQuat: imat = [-1, 1, 1, 1] tiled, times q, then fixQuat.          *)
(***************************************************************************)
imat == <<-1, 1, 1, 1>>

invertQuatNoImat(q) == fixQuat(q)

invertQuat(q) ==
    LET qinv == Arr([j \in DOMAIN q |->
                        Surd([i \in 1..4 |-> imat[i] * q[j].c[i]], q[j].r)])
    IN  fixQuat(qinv)

(***************************************************************************)
(* Inputs.                                                                 *)
(***************************************************************************)
Units3 == {-1, 0, 1}

\* all nonzero integer 4-vectors with components in {-1, 0, 1}
IntQ == {c \in [1..4 -> Units3] : \E i \in 1..4 : c[i] # 0}

\* the unit quaternions they normalize to: the 48 elements of the binary
\* octahedral group and 32 quaternions of angle 2 acos(1/sqrt 3) and pi
UnitQ == {unitColumn(Raw(c)) : c \in IntQ}

\* columns of the batches: scalar part positive, negative and zero, norm 1
\* and norm other than 1
BatchCols ==
    { Raw(<<1, 0, 0, 0>>), Raw(<<1, 1, 0, 0>>), Raw(<<-1, 1, 0, 0>>),
      Raw(<<0, 1, 0, 0>>), Raw(<<-2, 0, 2, 0>>), Raw(<<1, 1, 1, 1>>),
      Raw(<<0, 1, 1, 0>>), Raw(<<-1, 0, 0, -1>>) }

Batches == UNION {[1..n -> BatchCols] : n \in 1..MaxN}

\* batches whose columns have unit norm
UnitBatches == {unitVector(b) : b \in Batches}

\* the columns of the calls that take two batches: quarter turns, a third
\* of a turn and a half turn, with products of scalar part positive,
\* negative and zero
PairCols ==
    { Surd(<<1, 1, 0, 0>>, 2), Raw(<<0, 1, 0, 0>>), Surd(<<1, 1, 1, 1>>, 4),
      Surd(<<-1, 0, 0, -1>>, 2) }

PairBatches == UNION {[1..n -> PairCols] : n \in 1..MaxN}

(***************************************************************************)
(* quatProductMatrix: the (n, 4, 4) operators of right or left             *)
(* multiplication.  The 16 rows of the array literal are taken in groups   *)
(* of four, and the final transpose makes each group a column.             *)
(***************************************************************************)
qmatsRight(x) ==
    LET q0 == x.c[1]  q1 == x.c[2]  q2 == x.c[3]  q3 == x.c[4]
    IN  << <<q0, q1, q2, q3>>,
           <<-q1, q0, -q3, q2>>,
           <<-q2, q3, q0, -q1>>,
           <<-q3, -q2, q1, q0>> >>

\* the left operator written with the signs of the right one
qmatsLeftSignsOfRight(x) == qmatsRight(x)

qmatsLeft(x) ==
    LET q0 == x.c[1]  q1 == x.c[2]  q2 == x.c[3]  q3 == x.c[4]
    IN  << <<q0, q1, q2, q3>>,
           <<-q1, q0, q3, -q2>>,
           <<-q2, -q3, q0, q1>>,
           <<-q3, q2, -q1, q0>> >>

\* the operator of one quaternion
qmatOf(x, mult) ==
    LET g == IF mult = "right" THEN qmatsRight(x) ELSE qmatsLeft(x)
    IN  [m |-> Arr([i \in 1..4 |-> Arr([k \in 1..4 |-> g[k][i]])]), r |-> x.r]

quatProductMatrix(quats, mult) ==
    Arr([j \in DOMAIN quats |-> qmatOf(quats[j], mult)])

\* numpy.dot of one (4, 4) operator and one column
dotMatCol(M, x) ==
    Surd(Arr([i \in 1..4 |-> SumSeq([k \in 1..4 |-> M.m[i][k] * x.c[k]])]),
         M.r * x.r)

\* dot(qmats, q).transpose(2, 0, 1).reshape(m * n, 4).T for (m, 4, 4) qmats
\* and (4, n) q: column (j - 1) * m + i is operator i applied to column j
dotReshape(qmats, q) ==
    Eval(<<qmats, q>>, LAMBDA a :
        LET m == Len(a[1])
            n == Len(a[2])
        IN  Arr([k \in 1..(m * n) |->
                    dotMatCol(a[1][((k - 1) % m) + 1], a[2][((k - 1) \div m) + 1])]))

(***************************************************************************)
(* scipy.spatial.transform.Rotation, as rotations.py uses it.  A Rotation  *)
(* holds unit quaternions in scalar-last order (x, y, z, w); ws is the     *)
(* sign of w as binary64 holds it, which is what numpy.sign reads.         *)
(***************************************************************************)
\* np.roll(q.T, -1, axis=1): (w, x, y, z) to (x, y, z, w)
rollToScalarLast(x) == [c |-> <<x.c[2], x.c[3], x.c[4], x.c[1]>>, r |-> x.r]

\* np.roll(quat, 1, axis=1): (x, y, z, w) to (w, x, y, z)
rollToScalarFirst(x) == [c |-> <<x.c[4], x.c[1], x.c[2], x.c[3]>>, r |-> x.r]

\* a Rotation from exactly known columns: w is held exactly, so is its sign
rotationOf(cols) ==
    [q |-> cols, ws |-> Arr([j \in DOMAIN cols |-> Sgn(cols[j].c[4])])]

\* R.from_quat normalizes its input
_quat_to_scipy_rotation(q) ==
    rotationOf(Arr([j \in DOMAIN q |-> unitColumn(rollToScalarLast(q[j]))]))

\* quat *= np.sign(quat[0, :]); np.sign(0.0) is 0.0
_scipy_rotation_to_quat(rot) ==
    Arr([j \in DOMAIN rot.q |-> Scale(rot.ws[j], rollToScalarFirst(rot.q[j]))])

\* the quaternion of the composition p * q (p applied after q): the
\* Hamilton product, w = pw qw - p.q and vec = pw q + qw p + p x q
composeQuat(p, q) ==
    LET px == p.c[1]  py == p.c[2]  pz == p.c[3]  pw == p.c[4]
        qx == q.c[1]  qy == q.c[2]  qz == q.c[3]  qw == q.c[4]
    IN  unitColumn(Surd(<< pw * qx + qw * px + (py * qz - pz * qy),
                           pw * qy + qw * py + (pz * qx - px * qz),
                           pw * qz + qw * pz + (px * qy - py * qx),
                           pw * qw - (px * qx + py * qy + pz * qz) >>,
                        p.r * q.r))

\* rot_2 * rot_1 for Rotations of equal length
rotationProduct(rot2, rot1) ==
    rotationOf(Arr([j \in DOMAIN rot2.q |-> composeQuat(rot2.q[j], rot1.q[j])]))

quatProduct(q1, q2) ==
    LET rot_1 == _quat_to_scipy_rotation(q1)
        rot_2 == _quat_to_scipy_rotation(q2)
    IN  _scipy_rotation_to_quat(rotationProduct(rot_2, rot_1))

\* the first index of the largest of four numbers
argmax4(d) == CHOOSE i \in 1..4 :
                 /\ \A k \in 1..4 : d[k] <= d[i]
                 /\ \A k \in 1..(i - 1) : d[k] < d[i]

\* R.from_matrix on one matrix m / den: the largest of the diagonal entries
\* and the trace selects the component computed from the diagonal; the
\* others come from sums and differences of off-diagonal entries
fromMatrixCol(M) ==
    LET m == M.m
        tr == m[1][1] + m[2][2] + m[3][3]
        choice == argmax4(<<m[1][1], m[2][2], m[3][3], tr>>)
        i == choice
        j == (i % 3) + 1
        k == (j % 3) + 1
        quat == IF choice # 4
                THEN [x \in 1..4 |->
                        IF x = i THEN M.den - tr + 2 * m[i][i]
                        ELSE IF x = j THEN m[j][i] + m[i][j]
                        ELSE IF x = k THEN m[k][i] + m[i][k]
                        ELSE m[k][j] - m[j][k]]
                ELSE << m[3][2] - m[2][3], m[1][3] - m[3][1],
                        m[2][1] - m[1][2], M.den + tr >>
    IN  unitColumn(Raw(quat))

fromMatrix(r_mat) ==
    rotationOf(Arr([j \in DOMAIN r_mat |-> fromMatrixCol(r_mat[j])]))

quatOfRotMat(r_mat) == _scipy_rotation_to_quat(fromMatrix(r_mat))

\* R.from_rotvec of the rotation by theta = k * pi / 2 about the unit axis
\* n: (sin(theta/2) n, cos(theta/2)).  cos(pi/2) is 6.1e-17 in binary64, so
\* the w of a half-turn is held as positive
fromRotvecCol(k, n) ==
    IF k = 0 \/ IsZero(n) THEN [q |-> Raw(<<0, 0, 0, 1>>), ws |-> 1]
    ELSE IF k = 1 THEN [q |-> Surd(<<n.c[1], n.c[2], n.c[3], 1>>, 2), ws |-> 1]
    ELSE IF k = 2 THEN [q |-> Surd(<<n.c[1], n.c[2], n.c[3], 0>>, 1), ws |-> 1]
    ELSE [q |-> Surd(<<n.c[1], n.c[2], n.c[3], -1>>, 2), ws |-> -1]

fromRotvec(ks, axes) ==
    [q |-> Arr([j \in DOMAIN ks |-> fromRotvecCol(ks[j], axes[j]).q]),
     ws |-> Arr([j \in DOMAIN ks |-> fromRotvecCol(ks[j], axes[j]).ws])]

\* quatOfAngleAxis: angle a list of n angles (in units of pi/2), rotaxis
\* (3, 1) or (3, n)
quatOfAngleAxis(angle, rotaxis) ==
    LET n == Len(angle)
    IN  IF Len(rotaxis) # 1 /\ Len(rotaxis) # n
        THEN [exc |-> "RuntimeError", val |-> <<>>]
        ELSE LET tiled == IF Len(rotaxis) = 1
                          THEN Arr([j \in 1..n |-> rotaxis[1]])
                          ELSE rotaxis
             IN  [exc |-> "none",
                  val |-> _scipy_rotation_to_quat(
                              fromRotvec(angle, unitVector(tiled)))]

\* quatOfExpMap: column j of expMaps is the vector (k pi/2) n, held as the
\* pair [k |-> k, n |-> n]
quatOfExpMap(expMaps) ==
    _scipy_rotation_to_quat(
        fromRotvec([j \in DOMAIN expMaps |-> expMaps[j].k],
                   [j \in DOMAIN expMaps |-> expMaps[j].n]))

(***************************************************************************)
(* rotMatOfQuat: the nine quadratic forms of _rotmatofquat.                *)
(***************************************************************************)
\* m / den in lowest terms
RatMat(m, den) ==
    LET g == Gcd(den, GcdSeq([e \in 1..9 |-> m[((e - 1) \div 3) + 1][((e - 1) % 3) + 1]]))
    IN  [m |-> Arr([i \in 1..3 |-> Arr([k \in 1..3 |-> m[i][k] \div g])]),
         den |-> den \div g]

_rotmatofquatCol(x) ==
    LET a == x.c[1]  b == x.c[2]  c == x.c[3]  d == x.c[4]
    IN  RatMat(<< << a * a + b * b - c * c - d * d,
                     2 * b * c - 2 * a * d,
                     2 * a * c + 2 * b * d >>,
                  << 2 * a * d + 2 * b * c,
                     a * a - b * b + c * c - d * d,
                     2 * c * d - 2 * a * b >>,
                  << 2 * b * d - 2 * a * c,
                     2 * a * b + 2 * c * d,
                     a * a - b * b - c * c + d * d >> >>, x.r)

rotMatOfQuat(quat) == Arr([j \in DOMAIN quat |-> _rotmatofquatCol(quat[j])])

\* the matrix product A B
matMul(A, B) ==
    RatMat([i \in 1..3 |-> [k \in 1..3 |->
               SumSeq([l \in 1..3 |-> A.m[i][l] * B.m[l][k]])]], A.den * B.den)

\* the rotations of the quaternions of UnitQ: the 24 proper rotations with
\* entries in {-1, 0, 1} and 16 with entries in thirds
RotMats == {_rotmatofquatCol(u) : u \in UnitQ}

IsCubic(M) == M.den = 1

\* axes along x, -y, z and -z, of length 1 and 2
Axes == {Raw(<<1, 0, 0>>), Raw(<<0, -1, 0>>), Raw(<<0, 0, 2>>), Raw(<<0, 0, -1>>)}

\* the angles 0, pi/2, pi, 3 pi/2, in units of pi/2
AngleUnits == 0..3

AngleLists == UNION {[1..n -> AngleUnits] : n \in 1..MaxN}

AxisLists == UNION {[1..n -> Axes] : n \in 1..MaxN}

(***************************************************************************)
(* Symmetry groups, as (4, m) arrays of exact quaternions with the         *)
(* identity first, in the order of the tables of quatOfLaueGroup.          *)
(***************************************************************************)
qId == Raw(<<1, 0, 0, 0>>)

symCi == <<qId>>

symC2h == <<qId, Raw(<<0, 0, 1, 0>>)>>

symD2h == <<qId, Raw(<<0, 1, 0, 0>>), Raw(<<0, 0, 1, 0>>), Raw(<<0, 0, 0, 1>>)>>

symC4h == <<qId, Surd(<<1, 0, 0, 1>>, 2), Raw(<<0, 0, 0, 1>>), Surd(<<1, 0, 0, -1>>, 2)>>

symD4h == symC4h \o <<Raw(<<0, 1, 0, 0>>), Raw(<<0, 0, 1, 0>>),
                      Surd(<<0, 1, 1, 0>>, 2), Surd(<<0, -1, 1, 0>>, 2)>>

SymGroups == {symCi, symC2h, symD2h, symC4h, symD4h}

(***************************************************************************)
(* toFundamentalRegion, 2-d q and crysSym given as an array.               *)
(***************************************************************************)
\* sampSym=None, held as the empty array
None == <<>>

\* numpy.argmax down column j of the (m, n) array q0 of scalar components,
\* q0[i, j] = qeqv[0, (j - 1) * m + i]: the first index of the maximum
argmaxTakesFirstRow(qeqv, m, j) == 1

argmaxColumn(qeqv, m, j) ==
    CHOOSE i \in 1..m :
        /\ \A k \in 1..m :
              ~Less(qeqv[(j - 1) * m + i], qeqv[(j - 1) * m + k])
        /\ \A k \in 1..(i - 1) :
              Less(qeqv[(j - 1) * m + k], qeqv[(j - 1) * m + i])

q0maxColIndNoOffset(qeqv, m, n) == Arr([j \in 1..n |-> argmaxColumn(qeqv, m, j)])

\* argmax(q0, 0) + [x * m for x in range(n)]
q0maxColInd(qeqv, m, n) ==
    Arr([j \in 1..n |-> argmaxColumn(qeqv, m, j) + (j - 1) * m])

toFundamentalRegion(q, crysSym, sampSym) ==
    LET n == Len(q)
        m == Len(crysSym)
    IN  IF sampSym = None
        THEN Eval(fixQuat(dotReshape(quatProductMatrix(crysSym, "right"), q)),
                  LAMBDA qeqv :
                      [exc |-> "none",
                       val |-> Arr([j \in 1..n |-> qeqv[q0maxColInd(qeqv, m, n)[j]]])])
        ELSE [exc |-> "NotImplementedError", val |-> <<>>]

(***************************************************************************)
(* misorientation.  symArg.given tells whether a symmetry argument is       *)
(* passed and symArg.sym is the tuple of symmetry arrays.  The angle        *)
(* 2 arccos(qmax) is held as qmax, the cosine of its half.                 *)
(***************************************************************************)
\* the entries of a sequence at the indices that satisfy flag, in order
RECURSIVE takeWhere(_, _, _)
takeWhere(s, flag, k) ==
    IF k > Len(s) THEN <<>>
    ELSE (IF flag[k] THEN <<s[k]>> ELSE <<>>) \o takeWhere(s, flag, k + 1)

\* a column with the largest first component
maxScalar(S) == CHOOSE x \in S : \A y \in S : ~Less(x, y)

misorientation(q1, q2, symArg) ==
    IF Len(q1) # 1 THEN [exc |-> "RuntimeError", angle |-> <<>>, mis |-> <<>>]
    ELSE IF symArg.given /\ Len(symArg.sym) > 2
    THEN [exc |-> "RuntimeError", angle |-> <<>>, mis |-> <<>>]
    ELSE IF symArg.given /\ Len(symArg.sym) = 0
    THEN [exc |-> "IndexError", angle |-> <<>>, mis |-> <<>>]
    ELSE
    LET sym == IF ~symArg.given THEN <<symCi, symCi>>
               ELSE IF Len(symArg.sym) = 1 THEN symArg.sym \o <<symCi>>
               ELSE symArg.sym
        n == Len(q2)
        m == Len(sym[1])
        p == Len(sym[2])
        q1i == quatProductMatrix(invertQuat(q1), "right")[1]
        rsym == quatProductMatrix(sym[1], "right")
        lsym == quatProductMatrix(sym[2], "left")
        q2c == dotReshape(rsym, q2)
        q2s == dotReshape(lsym, q2c)
        eqvMis == fixQuat(Arr([k \in 1..(p * m * n) |-> dotMatCol(q1i, q2s[k])]))
        \* sclEqvMis[r, j] = eqvMis[0, (j - 1) * p * m + r]
        qmax == Arr([j \in 1..n |->
                    Comp(maxScalar({eqvMis[(j - 1) * p * m + r] : r \in 1..(p * m)}), 1)])
        \* sort(rows + cols * p * m) of the nonzero entries of sclEqvMis == qmax
        isMax == Arr([k \in 1..(p * m * n) |->
                    Comp(eqvMis[k], 1) = qmax[((k - 1) \div (p * m)) + 1]])
    IN  [exc |-> "none", angle |-> qmax, mis |-> takeWhere(eqvMis, isMax, 1)]

\* the symmetry arguments: none, crystal only, crystal and sample, and
\* tuples of the wrong length
SymArgs ==
    {[given |-> FALSE, sym |-> <<>>]}
        \cup {[given |-> TRUE, sym |-> t] :
                t \in {<<>>, <<symCi, symCi, symCi>>}
                        \cup {<<g>> : g \in SymGroups}
                        \cup {<<g, h>> : g \in {symC2h, symD2h}, h \in {symCi, symC2h}}}

\* the reference quaternions of misorientation
RefQuats == {<<qId>>, <<Surd(<<1, 1, 0, 0>>, 2)>>, <<Raw(<<0, 0, 1, 0>>)>>,
             <<Surd(<<-3, 2, 1, 0>>, 14)>>, <<qId, qId>>}

(***************************************************************************)
(* 3-d quaternion arrays of shape (l, 4, n), held as a sequence of l       *)
(* sequences of n columns: q[i][j] is q[i, :, j].                          *)
(***************************************************************************)
\* q.transpose(0, 2, 1).reshape(l * n, 4).T: column (i - 1) * n + j
flatten3(q) ==
    LET n == Len(q[1])
    IN  Arr([k \in 1..(Len(q) * n) |-> q[((k - 1) \div n) + 1][((k - 1) % n) + 1]])

\* the restore with the two outer axes exchanged
restore3Exchanged(flat, l, n) ==
    Arr([i \in 1..l |-> Arr([j \in 1..n |-> flat[(j - 1) * l + i]])])

\* qfix.T.reshape(l, n, 4).transpose(0, 2, 1)
restore3(flat, l, n) ==
    Arr([i \in 1..l |-> Arr([j \in 1..n |-> flat[(i - 1) * n + j]])])

\* fixQuat on a 3-d array
fixQuat3(q) ==
    Eval(fixQuat(flatten3(q)), LAMBDA qfix : restore3(qfix, Len(q), Len(q[1])))

\* toFundamentalRegion on a 3-d array
toFundamentalRegion3(q, crysSym, sampSym) ==
    Eval(toFundamentalRegion(flatten3(q), crysSym, sampSym), LAMBDA res :
        IF res.exc # "none" THEN res
        ELSE [exc |-> "none", val |-> restore3(res.val, Len(q), Len(q[1]))])

\* the columns of the 3-d inputs, and the arrays of shape (l, 4, n) with
\* l and n up to 2
Cols3 ==
    {Raw(<<1, 0, 0, 0>>), Raw(<<-1, 1, 0, 0>>), Raw(<<0, 1, 1, 0>>), Raw(<<-2, 0, 2, 0>>)}

Arrays3 == UNION {[1..l -> [1..n -> Cols3]] : l \in 1..2, n \in 1..2}

\* numpy.squeeze of an (l, 4, n) array with n > 1
squeeze3(q) == IF Len(q) = 1 THEN q[1] ELSE q

(***************************************************************************)
(* discreteFiber with B = I3.  c is (3, nptc), s is (3, npts), both of     *)
(* axis-aligned vectors; the sweep angles 2 pi i / ndiv are multiples of   *)
(* pi/2 for ndiv 2 and 4.  hperp[i] is nullSpace(c[:, i])[:, 0], some unit *)
(* vector orthogonal to c[:, i].                                           *)
(***************************************************************************)
\* the sum of two columns with integer components
addColumns(x, y) == Raw(Arr([i \in DOMAIN x.c |-> x.c[i] + y.c[i]]))

\* anrm > ztol: the sum of two axis-aligned unit vectors has norm 0,
\* sqrt(2) or 2
okayFlags(ax) == Arr([j \in DOMAIN ax |-> ~IsZero(ax[j])])

countTrue(flags) == Cardinality({j \in DOMAIN flags : flags[j]})

\* the rotation axes of one crystal direction cu against the sample
\* directions su: the unit bisectors, or hperp where they are undefined
fiberAxes(cu, su, hperp) ==
    LET npts == Len(su)
        ax == Arr([j \in 1..npts |-> addColumns(su[j], cu)])
        okay == okayFlags(ax)
        nokay == countTrue(okay)
    IN  IF nokay = npts THEN [exc |-> "none", val |-> unitVector(ax)]
        ELSE IF nokay = 0
        THEN [exc |-> "none", val |-> Arr([j \in 1..npts |-> hperp])]
        \* ax[:, not okay]: `not` of an array of two or more elements
        ELSE [exc |-> "ValueError", val |-> <<>>]

\* arange(0, ndiv) * (2 * pi / float(ndiv)), in units of pi/2
sweepAngles(ndiv) == Arr([i \in 1..ndiv |-> (i - 1) * (4 \div ndiv)])

\* q0 = vstack([zeros(npts), ax])
pureQuats(ax) ==
    Arr([j \in DOMAIN ax |-> Surd(<<0, ax[j].c[1], ax[j].c[2], ax[j].c[3]>>, ax[j].r)])

\* dot(quatProductMatrix(qh, mult='right'), q0).transpose(2, 1, 0), of
\* shape (npts, 4, ndiv)
fiberQuats(cu, q0, ndiv) ==
    Eval(quatProductMatrix(
             quatOfAngleAxis(sweepAngles(ndiv), Arr([i \in 1..ndiv |-> cu])).val,
             "right"),
         LAMBDA qmats :
             Arr([j \in DOMAIN q0 |->
                     Arr([i \in 1..ndiv |-> dotMatCol(qmats[i], q0[j])])]))

\* one pass of the loop over the columns of c
fiberOf(cu, su, hperp, ndiv, csym, ssym) ==
    Eval(fiberAxes(cu, su, hperp), LAMBDA axes :
        IF axes.exc # "none" THEN axes
        ELSE Eval(fiberQuats(cu, pureQuats(axes.val), ndiv), LAMBDA qfib :
                IF csym # None
                THEN IF Len(qfib) = 1
                     THEN toFundamentalRegion(squeeze3(qfib), csym, ssym)
                     ELSE toFundamentalRegion3(qfib, csym, ssym)
                ELSE [exc |-> "none", val |-> squeeze3(fixQuat3(qfib))]))

\* the first exception of the loop, if any
RECURSIVE firstExc(_, _)
firstExc(rs, i) ==
    IF i > Len(rs) THEN "none"
    ELSE IF rs[i].exc # "none" THEN rs[i].exc
    ELSE firstExc(rs, i + 1)

discreteFiber(c, s, hperp, ndiv, csym, ssym) ==
    Eval(<<unitVector(c), unitVector(s)>>, LAMBDA u :
        Eval(Arr([i \in 1..Len(c) |->
                     fiberOf(u[1][i], u[2], hperp[i], ndiv, csym, ssym)]),
             LAMBDA rs :
                 IF firstExc(rs, 1) # "none"
                 THEN [exc |-> firstExc(rs, 1), val |-> <<>>]
                 ELSE [exc |-> "none", val |-> Arr([i \in 1..Len(c) |-> rs[i].val])]))

\* crystal and sample directions
CrystalDirs == {Raw(<<0, 0, 1>>), Raw(<<2, 0, 0>>)}

SampleDirs == {Raw(<<0, 0, 1>>), Raw(<<0, 0, -2>>), Raw(<<-1, 0, 0>>)}

CrystalDirLists == UNION {[1..n -> CrystalDirs] : n \in 1..MaxN}

SampleDirLists == UNION {[1..n -> SampleDirs] : n \in 1..MaxN}

\* two unit vectors orthogonal to the axis-aligned column cu
perpOf(cu, k) ==
    LET a == CHOOSE i \in 1..3 : cu.c[i] # 0
    IN  Raw(Arr([i \in 1..3 |-> IF i = (a % 3) + 1 THEN k ELSE 0]))

(***************************************************************************)
(* quatOfLaueGroup.  A tag is a string, held as the tuple of its           *)
(* characters.  The groups of the trigonal and hexagonal systems have      *)
(* components 1/2 and sqrt(3)/2 side by side, so the quaternions of this   *)
(* function are held by the signed squares of their components: s[i] / d   *)
(* is sign(q[i]) * q[i]^2.  Angles are in units of pi/6 and an axis is     *)
(* given by the signed squares of its components, times 4.                 *)
(***************************************************************************)
\* str.lower(), character by character
lowerChar(ch) ==
    CASE ch = "C" -> "c"  [] ch = "D" -> "d"  [] ch = "H" -> "h"
      [] ch = "I" -> "i"  [] ch = "O" -> "o"  [] ch = "S" -> "s"
      [] ch = "T" -> "t"  [] ch = "V" -> "v"  [] ch = "X" -> "x"
      [] ch = "Y" -> "y"  [] ch = "Z" -> "z"  [] ch = "A" -> "a"
      [] ch = "E" -> "e"  [] ch = "G" -> "g"  [] ch = "N" -> "n"
      [] ch = "R" -> "r"  [] OTHER -> ch

lowerKeepsCase(tag) == tag

lower(tag) == Arr([i \in DOMAIN tag |-> lowerChar(tag[i])])

\* one column of angleAxis
AngAx(a, x, y, z) == [a |-> a, ax |-> <<x, y, z>>]

laueIdentity == AngAx(0, 1, 0, 0)

\* the rotations about x3 by k * step, k = 1 .. count
aboutZ(step, count) == Arr([k \in 1..count |-> AngAx(k * step, 0, 0, 1)])

\* the threefold rotations about the body diagonals
threefolds ==
    << AngAx(4, 1, 1, 1), AngAx(8, 1, 1, 1), AngAx(4, -1, 1, 1), AngAx(8, -1, 1, 1),
       AngAx(4, -1, -1, 1), AngAx(8, -1, -1, 1), AngAx(4, 1, -1, 1), AngAx(8, 1, -1, 1) >>

\* the angleAxis table of a lower-case tag; the empty table for a tag
\* that no branch recognises
angleAxis(t) ==
    CASE t \in {<<"c", "i">>, <<"s", "2">>} -> <<laueIdentity>>
      [] t = <<"c", "2", "h">> -> <<laueIdentity, AngAx(6, 0, 1, 0)>>
      [] t \in {<<"d", "2", "h">>, <<"v", "h">>} ->
            <<laueIdentity, AngAx(6, 1, 0, 0), AngAx(6, 0, 1, 0), AngAx(6, 0, 0, 1)>>
      [] t = <<"c", "4", "h">> -> <<laueIdentity>> \o aboutZ(3, 3)
      [] t = <<"d", "4", "h">> ->
            <<laueIdentity>> \o aboutZ(3, 3)
                \o <<AngAx(6, 1, 0, 0), AngAx(6, 0, 1, 0),
                     AngAx(6, 1, 1, 0), AngAx(6, -1, 1, 0)>>
      [] t \in {<<"c", "3", "i">>, <<"s", "6">>} ->
            <<laueIdentity, AngAx(4, 0, 0, 1), AngAx(8, 0, 0, 1)>>
      [] t = <<"d", "3", "d">> ->
            <<laueIdentity, AngAx(4, 0, 0, 1), AngAx(8, 0, 0, 1),
              AngAx(6, 1, 0, 0), AngAx(6, -1, 3, 0), AngAx(6, -1, -3, 0)>>
      [] t = <<"c", "6", "h">> -> <<laueIdentity>> \o aboutZ(2, 5)
      [] t = <<"d", "6", "h">> ->
            <<laueIdentity>> \o aboutZ(2, 5)
                \o <<AngAx(6, 1, 0, 0), AngAx(6, -1, 3, 0), AngAx(6, -1, -3, 0),
                     AngAx(6, 3, 1, 0), AngAx(6, 0, 1, 0), AngAx(6, -3, 1, 0)>>
      [] t = <<"t", "h">> ->
            <<laueIdentity, AngAx(6, 1, 0, 0), AngAx(6, 0, 1, 0), AngAx(6, 0, 0, 1)>>
                \o threefolds
      [] t = <<"o", "h">> ->
            <<laueIdentity,
              AngAx(3, 1, 0, 0), AngAx(6, 1, 0, 0), AngAx(9, 1, 0, 0),
              AngAx(3, 0, 1, 0), AngAx(6, 0, 1, 0), AngAx(9, 0, 1, 0),
              AngAx(3, 0, 0, 1), AngAx(6, 0, 0, 1), AngAx(9, 0, 0, 1)>>
                \o threefolds
                \o <<AngAx(6, 1, 1, 0), AngAx(6, -1, 1, 0), AngAx(6, 1, 0, 1),
                     AngAx(6, 0, 1, 1), AngAx(6, -1, 0, 1), AngAx(6, 0, -1, 1)>>
      [] OTHER -> <<>>

\* 4 sign(cos(a pi/12)) cos(a pi/12)^2 for the half angles of the tables
cosSq4(a) ==
    CASE a = 0 -> 4  [] a = 2 -> 3  [] a = 3 -> 2  [] a = 4 -> 1  [] a = 6 -> 0
      [] a = 8 -> -1  [] a = 9 -> -2  [] a = 10 -> -3

\* signed squares over a denominator, in lowest terms
SqVec(s, d) ==
    LET g == Gcd(GcdSeq(s), d)
    IN  [s |-> Arr([i \in DOMAIN s |-> s[i] \div g]), d |-> d \div g]

\* a half-turn about an axis that is not a coordinate axis: the norm of
\* pi * axis is rounded, and w = cos(norm / 2) is a rounding error of
\* either sign
inexactHalfTurn(e) ==
    e.a = 6 /\ Cardinality({i \in 1..3 : e.ax[i] # 0}) > 1

\* the indices of the table whose w has a sign that rounding decides
inexactHalfTurns(table) == {i \in DOMAIN table : inexactHalfTurn(table[i])}

\* one column of quatOfAngleAxis(angle, axis): (cos(angle / 2),
\* sin(angle / 2) axis / |axis|) times numpy.sign of its scalar part, where
\* ws is that sign when the exact scalar part is 0 (cos(pi / 2) is 6.1e-17
\* in binary64, never 0)
laueQuat(e, ws) ==
    LET n == SumSeq([i \in 1..3 |-> Abs(e.ax[i])])
        w == cosSq4(e.a) * n
        sn == 4 - Abs(cosSq4(e.a))
        sg == IF w = 0 THEN ws ELSE Sgn(w)
    IN  SqVec(<<sg * w, sg * sn * e.ax[1], sg * sn * e.ax[2], sg * sn * e.ax[3]>>,
              4 * n)

\* flips is the set of the inexact half-turns whose w is rounded below 0
quatOfLaueGroup(tag, flips) ==
    IF ~tag.isStr THEN [exc |-> "RuntimeError", val |-> <<>>]
    ELSE Eval(angleAxis(lower(tag.chars)), LAMBDA table :
            IF table = <<>> THEN [exc |-> "RuntimeError", val |-> <<>>]
            ELSE [exc |-> "none",
                  val |-> Arr([i \in DOMAIN table |->
                              laueQuat(table[i], IF i \in flips THEN -1 ELSE 1)])])

\* the 14 tags
LaueTags ==
    { <<"c", "i">>, <<"s", "2">>, <<"c", "2", "h">>, <<"d", "2", "h">>, <<"v", "h">>,
      <<"c", "4", "h">>, <<"d", "4", "h">>, <<"c", "3", "i">>, <<"s", "6">>,
      <<"d", "3", "d">>, <<"c", "6", "h">>, <<"d", "6", "h">>, <<"t", "h">>,
      <<"o", "h">> }

upperChar(ch) ==
    CASE ch = "c" -> "C"  [] ch = "d" -> "D"  [] ch = "h" -> "H"
      [] ch = "i" -> "I"  [] ch = "o" -> "O"  [] ch = "s" -> "S"
      [] ch = "t" -> "T"  [] ch = "v" -> "V"  [] ch = "x" -> "X"
      [] ch = "y" -> "Y"  [] ch = "z" -> "Z"  [] OTHER -> ch

\* a tag in lower case, in capitals, as the documentation writes it, and
\* with its last letter alone in capitals
Spellings(t) ==
    { t, Arr([i \in DOMAIN t |-> upperChar(t[i])]),
      Arr([i \in DOMAIN t |-> IF i = 1 THEN upperChar(t[i]) ELSE t[i]]),
      Arr([i \in DOMAIN t |-> IF i = Len(t) THEN upperChar(t[i]) ELSE t[i]]) }

\* strings that are no tag
OtherStrings ==
    { <<>>, <<"c", "1">>, <<"d", "2">>, <<"o", "h", " ">>, <<"O">>, <<"c", "6", "v">>,
      <<"d", "6", "h", "h">> }

TagInputs ==
    {[isStr |-> TRUE, chars |-> c] :
        c \in (UNION {Spellings(t) : t \in LaueTags}) \cup OtherStrings}
        \cup {[isStr |-> FALSE, chars |-> <<>>]}

(***************************************************************************)
(* quatAverageCluster and quatAverage on inputs of one or two columns.     *)
(* Angles are held in units of pi/2, so the pairs taken are those whose    *)
(* misorientation is 0 or pi: half of it is 0 or pi/2.                     *)
(***************************************************************************)
\* arccos of the maximal scalar component, in units of pi/2
acosUnits(x) == IF x.c[1] = 0 THEN 1 ELSE 0

\* mq[1:], the vector parts of the columns of mq
vectorPart(mq) ==
    Arr([j \in DOMAIN mq |-> Surd(<<mq[j].c[2], mq[j].c[3], mq[j].c[4]>>, mq[j].r)])

\* 0.5 * ma * n for the (3, k) array n of unit vectors
halfMisorientation(ma, n) ==
    Arr([j \in DOMAIN n |-> [k |-> acosUnits(ma[1]), n |-> n[j]]])

\* numpy.squeeze of a (4, k) array: one dimension is left when k = 1
squeeze(q) == [ndim |-> IF Len(q) = 1 THEN 1 ELSE 2, cols |-> q]

\* reshape(4, 1) of a squeezed array, possible when it has 4 elements
reshape41(a) ==
    IF Len(a.cols) = 1 THEN [exc |-> "none", val |-> a.cols]
    ELSE [exc |-> "ValueError", val |-> <<>>]

\* mq[1:].reshape(3, 1), possible when mq has one column
reshape31(v) ==
    IF Len(v) = 1 THEN [exc |-> "none", val |-> v]
    ELSE [exc |-> "ValueError", val |-> <<>>]

\* quatProduct(q1, q2) for a second argument of one or two dimensions:
\* np.roll(q.T, -1, axis=1) has no axis 1 to roll in a 1-d array
quatProductOfSqueezed(q1, a) ==
    IF a.ndim = 1 THEN [exc |-> "AxisError", val |-> <<>>]
    ELSE [exc |-> "none", val |-> quatProduct(q1, a.cols)]

\* the symmetry argument (qsym,)
crystalOnly(qsym) == [given |-> TRUE, sym |-> <<qsym>>]

quatAverageCluster(q_in, qsym) ==
    Eval(unitVector(q_in), LAMBDA q :
        IF Len(q) = 1 THEN [exc |-> "none", val |-> q]
        ELSE Eval(misorientation(<<q[1]>>, <<q[2]>>, crystalOnly(qsym)), LAMBDA m :
                Eval(reshape41(squeeze(quatOfExpMap(
                         halfMisorientation(m.angle, unitVector(vectorPart(m.mis)))))),
                     LAMBDA h :
                         IF h.exc # "none" THEN h
                         ELSE [exc |-> "none", val |-> quatProduct(<<q[1]>>, h.val)])))

quatAverage(q_in, qsym) ==
    Eval(unitVector(q_in), LAMBDA q :
        IF Len(q) = 1 THEN [exc |-> "none", val |-> q]
        ELSE Eval(misorientation(<<q[1]>>, <<q[2]>>, crystalOnly(qsym)), LAMBDA m :
                Eval(reshape31(vectorPart(m.mis)), LAMBDA v :
                    IF v.exc # "none" THEN v
                    ELSE quatProductOfSqueezed(
                             <<q[1]>>,
                             squeeze(quatOfExpMap(
                                 halfMisorientation(m.angle, unitVector(v.val))))))))

\* inputs of one column, and of two columns a half-turn or nothing apart
ClusterInputs(qsym) ==
    {q \in UNION {[1..n -> BatchCols] : n \in 1..2} :
        Len(q) = 2 =>
            LET ma == misorientation(<<unitColumn(q[1])>>, <<unitColumn(q[2])>>,
                                     crystalOnly(qsym)).angle
            IN  ma[1].c[1] = 0 \/ ma[1] = Comp(qId, 1)}

(***************************************************************************)
(* angularDifference.  Angles in degrees are whole degrees; angles in      *)
(* radians are held in units of pi/4, in which 2 pi is 8.                  *)
(***************************************************************************)
periodDict == [degrees |-> 360, radians |-> 8]

angularDifferenceNoWrap(angList0, angList1, units) ==
    [exc |-> "none",
     val |-> Arr([i \in DOMAIN angList0 |-> Abs(angList1[i] - angList0[i])])]

\* angularDifference = angularDifference_opt
angularDifference_opt(angList0, angList1, units) ==
    IF units \notin DOMAIN periodDict THEN [exc |-> "KeyError", val |-> <<>>]
    ELSE LET period == periodDict[units]
             d == Arr([i \in DOMAIN angList0 |-> Abs(angList1[i] - angList0[i])])
         IN  [exc |-> "none",
              val |-> Arr([i \in DOMAIN d |->
                          IF d[i] <= period - d[i] THEN d[i] ELSE period - d[i]])]

\* numpy.mod takes the sign of the divisor, as % does
angularDifference_orig(angList0, angList1, units) ==
    IF units \notin {"radians", "degrees"} THEN [exc |-> "RuntimeError", val |-> <<>>]
    ELSE LET period == periodDict[units]
             diffAngles == Arr([i \in DOMAIN angList0 |-> angList0[i] - angList1[i]])
         IN  [exc |-> "none",
              val |-> Arr([i \in DOMAIN diffAngles |->
                          Abs(((diffAngles[i] + period \div 2) % period) - period \div 2)])]

\* angles inside and outside one period, on and off the branch cut
AngleValues(units) ==
    IF units = "degrees" THEN {-270, 0, 90, 180, 450} ELSE {-6, 0, 2, 4, 10}

AngleArrays(units) == UNION {[1..n -> AngleValues(units)] : n \in 1..2}

(***************************************************************************)
(* arccosSafe.  A float is [nan, v] with v in millionths; 1.00001 is       *)
(* 1000010.  An argument is [kind, data]: an ndarray is worked on in       *)
(* place by atleast_1d, a list is copied into a new array.  An angle is    *)
(* [nan, v] with v in units of pi/6.                                       *)
(***************************************************************************)
Num(v) == [nan |-> FALSE, v |-> v]

NaN == [nan |-> TRUE, v |-> 0]

\* comparisons of floats: every comparison with a NaN is false
absGreater(x, bound) == ~x.nan /\ Abs(x.v) > bound

greaterEqual(x, bound) == ~x.nan /\ x.v >= bound

lessEqual(x, bound) == ~x.nan /\ x.v <= bound

\* numpy.arccos, on the cosines of the multiples of pi/6 that are rational
arccos(x) ==
    IF x.nan \/ Abs(x.v) > 1000000 THEN NaN
    ELSE CASE x.v = 1000000 -> Num(0)
           [] x.v = 500000 -> Num(2)
           [] x.v = 0 -> Num(3)
           [] x.v = -500000 -> Num(4)
           [] x.v = -1000000 -> Num(6)

\* temp[gte1] = 1; temp[lte1] = -1
clamp(temp) ==
    Arr([i \in DOMAIN temp |->
            IF greaterEqual(temp[i], 1000000) THEN Num(1000000)
            ELSE IF lessEqual(temp[i], -1000000) THEN Num(-1000000)
            ELSE temp[i]])

\* val is the returned array, x the caller's object when the call ends
arccosSafe(x) ==
    IF \E i \in DOMAIN x.data : absGreater(x.data[i], 1000010)
    THEN [exc |-> "RuntimeError", val |-> <<>>, x |-> x]
    ELSE Eval(clamp(x.data), LAMBDA temp :
            [exc |-> "none",
             val |-> Arr([i \in DOMAIN temp |-> arccos(temp[i])]),
             x |-> IF x.kind = "ndarray" THEN [x EXCEPT !.data = temp] ELSE x])

\* cosines inside the range, on its ends, within the slack and beyond it
Cosines ==
    {NaN} \cup {Num(v) : v \in {-1000011, -1000005, -1000000, -500000, 0,
                                1000000, 1000010, 1000011}}

CosineArgs ==
    [kind : {"ndarray", "list"}, data : UNION {[1..n -> Cosines] : n \in 1..2}]

(***************************************************************************)
(* The arguments of misorientation as the objects the caller holds: the    *)
(* symmetry container is a tuple or a list, and each of its entries is a   *)
(* numpy array or not.                                                     *)
(***************************************************************************)
\* lines 221-243, then the rest of misorientation; sym is the caller's
\* container when the call ends
misorientationOfObjects(q1, q2, symObj) ==
    LET n == Len(symObj.sym)
        raised == [exc |-> "RuntimeError", angle |-> <<>>, mis |-> <<>>,
                   sym |-> symObj.sym]
    IN  IF Len(q1) = 1 /\ symObj.given /\ n = 1 /\ ~symObj.isArray[1] THEN raised
        ELSE IF Len(q1) = 1 /\ symObj.given /\ n = 2
                /\ (~symObj.isArray[1] \/ ~symObj.isArray[2]) THEN raised
        ELSE Eval(misorientation(q1, q2, [given |-> symObj.given, sym |-> symObj.sym]),
                  LAMBDA res :
                    [exc |-> res.exc, angle |-> res.angle, mis |-> res.mis,
                     \* sym += (c_[1.0, 0, 0, 0].T,) extends a list in place
                     sym |-> IF Len(q1) = 1 /\ symObj.given /\ n = 1
                                /\ symObj.container = "list"
                             THEN symObj.sym \o <<symCi>> ELSE symObj.sym])

\* the symmetry arguments as tuples of arrays, and a few lists and entries
\* that are not arrays
SymObjs ==
    {[given |-> a.given, sym |-> a.sym, container |-> "tuple",
      isArray |-> [i \in DOMAIN a.sym |-> TRUE]] : a \in SymArgs}
        \cup {[given |-> TRUE, sym |-> <<symC2h>>, container |-> "list",
               isArray |-> <<TRUE>>],
              [given |-> TRUE, sym |-> <<symC2h>>, container |-> "tuple",
               isArray |-> <<FALSE>>],
              [given |-> TRUE, sym |-> <<symC2h, symCi>>, container |-> "tuple",
               isArray |-> <<TRUE, FALSE>>],
              [given |-> TRUE, sym |-> <<symC2h, symCi>>, container |-> "list",
               isArray |-> <<FALSE, TRUE>>]}

(***************************************************************************)
(* distanceToFiber, for axis-aligned c and s, a metric tensor with integer *)
(* entries that keeps c axis-aligned, and quaternions whose rotation       *)
(* matrices have integer entries: every cosine is -1, 0 or 1.  The keyword *)
(* arguments are a sequence of entries [key, flag, mat], of distinct keys; *)
(* the value of an entry is its flag for 'centrosymmetry' and its matrix   *)
(* otherwise.                                                              *)
(***************************************************************************)
I3 == [m |-> <<<<1, 0, 0>>, <<0, 1, 0>>, <<0, 0, 1>>>>, den |-> 1]

\* dot(M, v) for a matrix of integers
matVec(M, v) ==
    Raw(Arr([i \in 1..3 |-> SumSeq([l \in 1..3 |-> M.m[i][l] * v.c[l]])]))

\* the argument handling with every keyword taken as known
distanceOptionsTakesAnyKey(kwargs) ==
    [exc |-> "none",
     csymFlag |-> \E i \in DOMAIN kwargs :
                     kwargs[i].key = "centrosymmetry" /\ kwargs[i].flag,
     B |-> IF \E i \in DOMAIN kwargs : kwargs[i].key = "bmatrix"
           THEN kwargs[CHOOSE i \in DOMAIN kwargs : kwargs[i].key = "bmatrix"].mat
           ELSE I3]

\* the argument handling of distanceToFiber: csymFlag and B, or the error
distanceOptions(kwargs) ==
    IF \E i \in DOMAIN kwargs : kwargs[i].key \notin {"centrosymmetry", "bmatrix"}
    THEN [exc |-> "RuntimeError", csymFlag |-> FALSE, B |-> I3]
    ELSE [exc |-> "none",
          csymFlag |-> \E i \in DOMAIN kwargs :
                          kwargs[i].key = "centrosymmetry" /\ kwargs[i].flag,
          B |-> IF \E i \in DOMAIN kwargs : kwargs[i].key = "bmatrix"
                THEN kwargs[CHOOSE i \in DOMAIN kwargs : kwargs[i].key = "bmatrix"].mat
                ELSE I3]

\* the distinct images of vec under the group, with their negatives when
\* csFlag is set; the order of the columns is left aside
applySym(vec, qsym, csFlag) ==
    LET allhkl == {matVec(_rotmatofquatCol(qsym[g]), vec) : g \in DOMAIN qsym}
    IN  IF csFlag THEN allhkl \cup {Scale(-1, v) : v \in allhkl} ELSE allhkl

\* the dot product of two integer vectors, in millionths
dotMillionths(x, y) == Num(1000000 * SumSeq([i \in 1..3 |-> x.c[i] * y.c[i]]))

maxFloat(S) == CHOOSE x \in S : \A y \in S : y.v <= x.v

distanceToFiber(c, s, q, qsym, kwargs) ==
    IF Len(c.c) # 3 \/ Len(s.c) # 3 THEN [exc |-> "RuntimeError", val |-> None]
    ELSE Eval(distanceOptions(kwargs), LAMBDA o :
        IF o.exc # "none" THEN [exc |-> o.exc, val |-> None]
        ELSE LET cu == unitColumn(matVec(o.B, c))
                 su == unitColumn(s)
                 rmats == rotMatOfQuat(q)
                 csym == applySym(cu, qsym, o.csymFlag)
                 sdotrc == Arr([j \in DOMAIN q |->
                             maxFloat({dotMillionths(su, matVec(rmats[j], v)) : v \in csym})])
                 d == arccosSafe([kind |-> "ndarray", data |-> sdotrc])
             IN  [exc |-> d.exc, val |-> d.val])

\* one entry for every value of the two options, and two unknown keywords
KeywordEntries ==
    {[key |-> "centrosymmetry", flag |-> f, mat |-> I3] : f \in BOOLEAN}
        \cup {[key |-> "bmatrix", flag |-> FALSE, mat |-> B] :
                B \in {I3, [m |-> <<<<0, 1, 0>>, <<1, 0, 0>>, <<0, 0, 2>>>>, den |-> 1]}}
        \cup {[key |-> k, flag |-> TRUE, mat |-> I3] : k \in {"units", "bMatrix"}}

\* the keyword arguments of a call: up to two entries of distinct keys
KeywordArgs ==
    {<<>>} \cup {<<e>> : e \in KeywordEntries}
           \cup {p \in {<<e, f>> : e \in KeywordEntries, f \in KeywordEntries} :
                    p[1].key # p[2].key}

\* quaternions of rotations with integer entries
FiberQuats ==
    {qId, Surd(<<1, 1, 0, 0>>, 2), Raw(<<0, 0, 1, 0>>), Surd(<<1, 1, 1, 1>>, 4)}

FiberBatches == UNION {[1..n -> FiberQuats] : n \in 1..2}

(***************************************************************************)
(* RotMatEuler.  A string is [isStr, chars], a flag is [isBool, truth].    *)
(* An array of angles is [n, k]: its elements are n[i] * (pi/180)^k, so    *)
(* that k = 0 holds plain numbers such as 90, k = 1 the same angles in     *)
(* radians, multiplying by d2r adds 1 to k and multiplying by r2d takes 1  *)
(* from it.  A rotation matrix is kept as the Euler sequence and the       *)
(* angles in radians it was made from.                                     *)
(***************************************************************************)
Str(chars) == [isStr |-> TRUE, chars |-> chars]

NotStr == [isStr |-> FALSE, chars |-> <<>>]

degrees == <<"d", "e", "g", "r", "e", "e", "s">>

radians == <<"r", "a", "d", "i", "a", "n", "s">>

\* periodDict.keys()
periodKeys == {degrees, radians}

axes_orders ==
    { <<"x", "y", "z">>, <<"z", "y", "x">>, <<"z", "x", "y">>, <<"y", "x", "z">>,
      <<"y", "z", "x">>, <<"x", "z", "y">>, <<"x", "y", "x">>, <<"x", "z", "x">>,
      <<"y", "x", "y">>, <<"y", "z", "y">>, <<"z", "x", "z">>, <<"z", "y", "z">> }

\* the power of pi/180 that is the factor: cnst.r2d for 'degrees', cnst.d2r
\* for 'radians'
conversion_to_dict(x) == IF x = degrees THEN -1 ELSE 1

times(power, angles) == [angles EXCEPT !.k = @ + power]

_check_axes_order(x) ==
    IF ~x.isStr THEN [exc |-> "RuntimeError", val |-> <<>>]
    ELSE Eval(lower(x.chars), LAMBDA axo :
            IF axo \notin axes_orders THEN [exc |-> "RuntimeError", val |-> <<>>]
            ELSE [exc |-> "none", val |-> axo])

\* R.from_euler(axo, tilt_angles).as_matrix(); capitals are intrinsic axes
make_rmat_euler(tilt_angles, axes_order, extrinsic) ==
    IF Len(tilt_angles.n) # 3 THEN [exc |-> "ValueError", val |-> <<>>]
    ELSE [exc |-> "none",
          val |-> [seq |-> IF extrinsic.truth THEN axes_order
                           ELSE Arr([i \in DOMAIN axes_order |-> upperChar(axes_order[i])]),
                   radians |-> tilt_angles]]

\* RotMatEuler.__init__; self is None when the constructor raises
RotMatEuler(angles, axes_order, extrinsic, units) ==
    Eval(_check_axes_order(axes_order), LAMBDA axo :
        IF axo.exc # "none" THEN [exc |-> axo.exc, self |-> None]
        ELSE IF ~units.isStr THEN [exc |-> "AttributeError", self |-> None]
        ELSE IF lower(units.chars) \notin periodKeys
        THEN [exc |-> "RuntimeError", self |-> None]
        ELSE [exc |-> "none",
              self |-> [_angles |-> angles, _axes_order |-> axo.val,
                        _extrinsic |-> extrinsic, _units |-> units.chars,
                        _rmat |-> None]])

\* the setters return the handle as the call leaves it
set_angles(self, x) ==
    IF Len(x.n) = 3 THEN [exc |-> "none", self |-> [self EXCEPT !._angles = x]]
    ELSE [exc |-> "RuntimeError", self |-> self]

set_axes_order(self, x) ==
    Eval(_check_axes_order(x), LAMBDA axo :
        IF axo.exc # "none" THEN [exc |-> axo.exc, self |-> self]
        ELSE [exc |-> "none", self |-> [self EXCEPT !._axes_order = axo.val]])

set_extrinsic(self, x) ==
    IF x.isBool THEN [exc |-> "none", self |-> [self EXCEPT !._extrinsic = x]]
    ELSE [exc |-> "RuntimeError", self |-> self]

\* the units stored before the angles are rescaled
set_unitsStoresFirst(self, x) ==
    IF x.isStr /\ x.chars \in periodKeys
    THEN IF self._units # x.chars
         THEN Eval(set_angles([self EXCEPT !._units = x.chars],
                              times(conversion_to_dict(x.chars), self._angles)),
                   LAMBDA res : res)
         ELSE [exc |-> "none", self |-> self]
    ELSE [exc |-> "RuntimeError", self |-> self]

set_units(self, x) ==
    IF x.isStr /\ x.chars \in periodKeys
    THEN IF self._units # x.chars
         THEN Eval(set_angles(self, times(conversion_to_dict(x.chars), self._angles)),
                   LAMBDA res :
                      IF res.exc # "none" THEN res
                      ELSE [exc |-> "none", self |-> [res.self EXCEPT !._units = x.chars]])
         ELSE [exc |-> "none", self |-> self]
    ELSE [exc |-> "RuntimeError", self |-> self]

\* the rmat property: val is the matrix returned
get_rmat(self) ==
    LET angs_in == IF self._units = degrees THEN times(1, self._angles)
                   ELSE self._angles
    IN  Eval(make_rmat_euler(angs_in, self._axes_order, self._extrinsic), LAMBDA m :
            IF m.exc # "none" THEN [exc |-> m.exc, val |-> None, self |-> self]
            ELSE [exc |-> "none", val |-> m.val,
                  self |-> [self EXCEPT !._rmat = m.val]])

\* rmat.setter, for a matrix x that is None (not a rotation matrix) or has
\* the Euler sequence of the handle: as_euler returns its angles, in
\* degrees when the units are 'degrees'
set_rmat(self, x) ==
    IF x = None THEN [exc |-> "RuntimeError", self |-> self]
    ELSE [exc |-> "none",
          self |-> [self EXCEPT !._rmat = x,
                                !._angles = IF self._units = degrees
                                            THEN times(-1, x.radians)
                                            ELSE x.radians]]

\* exponential_map.setter: x is [len, rot], an array of len numbers and
\* the matrix rotMatOfExpMap makes of it
set_exponential_map(self, x) ==
    IF x.len # 3 THEN [exc |-> "AssertionError", self |-> self]
    ELSE set_rmat(self, x.rot)

\* the numbers 90, 0, 30; the radians of 90, 0 and 30 degrees; two numbers
AngleInputs ==
    {[n |-> <<90, 0, 30>>, k |-> 0], [n |-> <<90, 0, 30>>, k |-> 1],
     [n |-> <<90, 0>>, k |-> 0]}

AxesOrderInputs ==
    {Str(<<"x", "y", "z">>), Str(<<"Z", "X", "Z">>), Str(<<"x", "x", "y">>), NotStr}

Flag(b) == [isBool |-> TRUE, truth |-> b]

\* True, False and the number 1
ExtrinsicInputs == {Flag(TRUE), Flag(FALSE), [isBool |-> FALSE, truth |-> TRUE]}

UnitsInputs ==
    {Str(degrees), Str(radians),
     Str(<<"D", "e", "g", "r", "e", "e", "s">>),
     Str(<<"R", "A", "D", "I", "A", "N", "S">>),
     Str(<<"d", "e", "g">>), NotStr}

(***************************************************************************)
(* mapAngle.  Angles in degrees are whole degrees, angles in radians are   *)
(* held in units of pi/4.  A float is [big, v]: with big = 0 it is the     *)
(* number v; with big = 1 or -1 it is a finite float congruent to v whose  *)
(* magnitude is beyond 2^63 periods, so that it lies above (below) every   *)
(* bound of a range, adding or subtracting one period returns the same     *)
(* float, and its quotient by the period does not fit numpy.int_.          *)
(***************************************************************************)
Fin(v) == [big |-> 0, v |-> v]

\* the quotient rounded toward zero, as the cast to numpy.int_ rounds it
truncDiv(a, b) == Sgn(a) * (Abs(a) \div b)

\* ang - nInt(ang / period) * period; the cast of a quotient out of range
\* is undefined, and whatever integer it gives, the difference stays big
dividePeriods(x, period) ==
    IF x.big # 0 THEN x ELSE Fin(x.v - truncDiv(x.v, period) * period)

addPeriod(x, k, period) == IF x.big # 0 THEN x ELSE Fin(x.v + k * period)

below(x, lb) == x.big = -1 \/ (x.big = 0 /\ x.v < lb)

above(x, ub) == x.big = 1 \/ (x.big = 0 /\ x.v > ub)

\* mod(ang + 0.5 * period, period) - 0.5 * period
wrapHalf(x, period) == Fin(((x.v + period \div 2) % period) - period \div 2)

\* the keyword loop of mapAngle: the units, or the error
mapAngleUnits(kwargs) ==
    IF \E i \in DOMAIN kwargs : kwargs[i].key # "units"
    THEN [exc |-> "RuntimeError", units |-> radians]
    ELSE [exc |-> "none",
          units |-> IF kwargs = <<>> THEN radians ELSE kwargs[Len(kwargs)].units]

\* mapAngle up to its loops.  rng is None or the range; frame is None when
\* the call is over, and the locals at the first loop otherwise
mapAngle(ang, rng, kwargs) ==
    Eval(mapAngleUnits(kwargs), LAMBDA u :
        IF u.exc # "none" THEN [exc |-> u.exc, val |-> None, frame |-> None]
        ELSE IF lower(u.units) \notin {degrees, radians}
        THEN [exc |-> "RuntimeError", val |-> None, frame |-> None]
        ELSE LET period == IF lower(u.units) = degrees THEN periodDict.degrees
                           ELSE periodDict.radians
             IN  IF rng = None
                 THEN [exc |-> "none",
                       val |-> Arr([i \in DOMAIN ang |-> wrapHalf(ang[i], period)]),
                       frame |-> None]
                 ELSE LET lb == IF rng[1] <= rng[2] THEN rng[1] ELSE rng[2]
                          ub == IF rng[1] <= rng[2] THEN rng[2] ELSE rng[1]
                      IN  IF Abs(ub - lb) # period
                          THEN [exc |-> "RuntimeError", val |-> None, frame |-> None]
                          ELSE [exc |-> "none", val |-> None,
                                frame |-> [pc |-> "lower",
                                           ang |-> Arr([i \in DOMAIN ang |->
                                                       dividePeriods(ang[i], period)]),
                                           lb |-> lb, ub |-> ub, period |-> period]])

\* the keyword arguments of mapAngle: none, units in several spellings, and
\* keywords that are not 'units'
UnitsKeywordArgs ==
    {<<>>}
        \cup {<<[key |-> "units", units |-> u]>> :
                u \in {degrees, radians, <<"D", "e", "g", "r", "e", "e", "s">>,
                       <<"d", "e", "g">>}}
        \cup {<<[key |-> k, units |-> degrees]>> : k \in {"unit", "Units"}}
        \cup {<<[key |-> "units", units |-> degrees], [key |-> "period", units |-> degrees]>>}

\* angles within a period, on the ends of the ranges, some periods away,
\* and beyond 2^63 periods
MapAngles ==
    {Fin(v) : v \in {-540, -180, -3, 0, 4, 90, 180, 725}}
        \cup {[big |-> 1, v |-> 90], [big |-> -1, v |-> 0]}

MapAngleArrays == UNION {[1..n -> MapAngles] : n \in 1..2}

\* no range, and ranges of one period and of less, in degrees and in
\* units of pi/4
MapRanges == {None, <<-180, 180>>, <<360, 0>>, <<90, 450>>, <<0, 180>>, <<-4, 4>>, <<0, 8>>}

(***************************************************************************)
(* The calls.  A call is made from the idle state and Return goes back to  *)
(* it, so a behaviour is a sequence of calls.                              *)
(***************************************************************************)
Init ==
    /\ op = "none"
    /\ args = <<>>
    /\ ret = <<>>
    /\ exc = "none"
    /\ caller = <<>>
    /\ handle = <<>>
    /\ frame = <<>>

CallFixQuat ==
    /\ op = "none"
    /\ UNCHANGED <<caller, handle, frame>>
    /\ \E q \in Batches :
        /\ op' = "fixQuat"
        /\ args' = [q |-> q]
        /\ ret' = fixQuat(q)
        /\ exc' = "none"

CallInvertQuat ==
    /\ op = "none"
    /\ UNCHANGED <<caller, handle, frame>>
    /\ \E q \in UnitBatches :
        /\ op' = "invertQuat"
        /\ args' = [q |-> q]
        /\ ret' = invertQuat(q)
        /\ exc' = "none"

\* dot(quatProductMatrix(q, mult), h) for single quaternions q and h
CallQuatProductMatrix ==
    /\ op = "none"
    /\ UNCHANGED <<caller, handle, frame>>
    /\ \E q \in UnitQ, h \in UnitQ, mult \in {"right", "left"} :
        /\ op' = "quatProductMatrix"
        /\ args' = [q |-> q, h |-> h, mult |-> mult]
        /\ ret' = dotMatCol(quatProductMatrix(<<q>>, mult)[1], h)
        /\ exc' = "none"

\* quatProduct on batches of equal length
CallQuatProduct ==
    /\ op = "none"
    /\ UNCHANGED <<caller, handle, frame>>
    /\ \E q1 \in PairBatches, q2 \in PairBatches :
        /\ Len(q1) = Len(q2)
        /\ op' = "quatProduct"
        /\ args' = [q1 |-> q1, q2 |-> q2]
        /\ ret' = quatProduct(q1, q2)
        /\ exc' = "none"

\* quatOfRotMat on one rotation matrix
CallQuatOfRotMat ==
    /\ op = "none"
    /\ UNCHANGED <<caller, handle, frame>>
    /\ \E r_mat \in RotMats :
        /\ op' = "quatOfRotMat"
        /\ args' = [r_mat |-> r_mat]
        /\ ret' = quatOfRotMat(<<r_mat>>)
        /\ exc' = "none"

CallQuatOfAngleAxis ==
    /\ op = "none"
    /\ UNCHANGED <<caller, handle, frame>>
    /\ \E angle \in AngleLists, rotaxis \in AxisLists :
        LET res == quatOfAngleAxis(angle, rotaxis)
        IN  /\ op' = "quatOfAngleAxis"
            /\ args' = [angle |-> angle, rotaxis |-> rotaxis]
            /\ ret' = res.val
            /\ exc' = res.exc

CallQuatOfExpMap ==
    /\ op = "none"
    /\ UNCHANGED <<caller, handle, frame>>
    /\ \E angle \in AngleLists, rotaxis \in AxisLists :
        /\ Len(angle) = Len(rotaxis)
        /\ LET expMaps == [j \in DOMAIN angle |->
                              [k |-> angle[j], n |-> unitColumn(rotaxis[j])]]
           IN  /\ op' = "quatOfExpMap"
               /\ args' = [expMaps |-> expMaps]
               /\ ret' = quatOfExpMap(expMaps)
               /\ exc' = "none"

CallToFundamentalRegion ==
    /\ op = "none"
    /\ UNCHANGED <<caller, handle, frame>>
    /\ \E q \in UnitBatches, crysSym \in SymGroups, sampSym \in {None, symC2h} :
        LET res == toFundamentalRegion(q, crysSym, sampSym)
        IN  /\ op' = "toFundamentalRegion"
            /\ args' = [q |-> q, crysSym |-> crysSym, sampSym |-> sampSym]
            /\ ret' = res.val
            /\ exc' = res.exc

\* fixQuat on a 3-d array
CallFixQuat3 ==
    /\ op = "none"
    /\ UNCHANGED <<caller, handle, frame>>
    /\ \E q \in Arrays3 :
        /\ op' = "fixQuat3"
        /\ args' = [q |-> q]
        /\ ret' = fixQuat3(q)
        /\ exc' = "none"

\* toFundamentalRegion on a 3-d array, without sample symmetry
CallToFundamentalRegion3 ==
    /\ op = "none"
    /\ UNCHANGED <<caller, handle, frame>>
    /\ \E q \in Arrays3, crysSym \in SymGroups :
        \E res \in {toFundamentalRegion3(q, crysSym, None)} :
            /\ op' = "toFundamentalRegion3"
            /\ args' = [q |-> q, crysSym |-> crysSym, sampSym |-> None]
            /\ ret' = res.val
            /\ exc' = res.exc

CallMisorientation ==
    /\ op = "none"
    /\ \E q1 \in RefQuats, q2 \in PairBatches, sym \in SymObjs :
        \E res \in {misorientationOfObjects(q1, q2, sym)} :
            /\ op' = "misorientation"
            /\ args' = [q1 |-> q1, q2 |-> q2, sym |-> sym]
            /\ ret' = [angle |-> res.angle, mis |-> res.mis]
            /\ exc' = res.exc
            /\ caller' = [q1 |-> q1, q2 |-> q2, sym |-> res.sym]
            /\ UNCHANGED <<handle, frame>>

CallDiscreteFiber ==
    /\ op = "none"
    /\ UNCHANGED <<caller, handle, frame>>
    /\ \E c \in CrystalDirLists, s \in SampleDirLists, k \in {-1, 1},
          ndiv \in {2, 4}, csym \in {None, symC4h}, ssym \in {None, symC2h} :
        LET hperp == Arr([i \in DOMAIN c |-> perpOf(c[i], k)])
            res == discreteFiber(c, s, hperp, ndiv, csym, ssym)
        IN  /\ op' = "discreteFiber"
            /\ args' = [c |-> c, s |-> s, hperp |-> hperp, ndiv |-> ndiv,
                        csym |-> csym, ssym |-> ssym]
            /\ ret' = res.val
            /\ exc' = res.exc

\* misorientation of a quaternion against itself, under a crystal symmetry
CallMisorientationSelf ==
    /\ op = "none"
    /\ \E q \in UnitQ, g \in SymGroups :
        \E sym \in {[given |-> TRUE, sym |-> <<g>>, container |-> "tuple",
                      isArray |-> <<TRUE>>]} :
        \E res \in {misorientationOfObjects(<<q>>, <<q>>, sym)} :
            /\ op' = "misorientation"
            /\ args' = [q1 |-> <<q>>, q2 |-> <<q>>, sym |-> sym]
            /\ ret' = [angle |-> res.angle, mis |-> res.mis]
            /\ exc' = res.exc
            /\ caller' = [q1 |-> <<q>>, q2 |-> <<q>>, sym |-> res.sym]
            /\ UNCHANGED <<handle, frame>>

\* quatOfLaueGroup on a tag, with every rounding of the half-turns
CallQuatOfLaueGroup ==
    /\ op = "none"
    /\ UNCHANGED <<caller, handle, frame>>
    /\ \E tag \in TagInputs :
        \E flips \in SUBSET inexactHalfTurns(angleAxis(lower(tag.chars))) :
            LET res == quatOfLaueGroup(tag, flips)
            IN  /\ op' = "quatOfLaueGroup"
                /\ args' = [tag |-> tag, flips |-> flips]
                /\ ret' = res.val
                /\ exc' = res.exc

CallQuatAverageCluster ==
    /\ op = "none"
    /\ UNCHANGED <<caller, handle, frame>>
    /\ \E qsym \in SymGroups :
        \E q_in \in ClusterInputs(qsym) :
            LET res == quatAverageCluster(q_in, qsym)
            IN  /\ op' = "quatAverageCluster"
                /\ args' = [q_in |-> q_in, qsym |-> qsym]
                /\ ret' = res.val
                /\ exc' = res.exc

CallQuatAverage ==
    /\ op = "none"
    /\ UNCHANGED <<caller, handle, frame>>
    /\ \E qsym \in SymGroups :
        \E q_in \in ClusterInputs(qsym) :
            LET res == quatAverage(q_in, qsym)
            IN  /\ op' = "quatAverage"
                /\ args' = [q_in |-> q_in, qsym |-> qsym]
                /\ ret' = res.val
                /\ exc' = res.exc

\* angularDifference on arrays of equal length
CallAngularDifference ==
    /\ op = "none"
    /\ UNCHANGED <<caller, handle, frame>>
    /\ \E units \in {"degrees", "radians", "deg"} :
        \E angList0 \in AngleArrays(units), angList1 \in AngleArrays(units) :
            /\ Len(angList0) = Len(angList1)
            /\ LET res == angularDifference_opt(angList0, angList1, units)
               IN  /\ op' = "angularDifference"
                   /\ args' = [angList0 |-> angList0, angList1 |-> angList1,
                               units |-> units]
                   /\ ret' = res.val
                   /\ exc' = res.exc

CallAngularDifferenceOrig ==
    /\ op = "none"
    /\ UNCHANGED <<caller, handle, frame>>
    /\ \E units \in {"degrees", "radians", "deg"} :
        \E angList0 \in AngleArrays(units), angList1 \in AngleArrays(units) :
            /\ Len(angList0) = Len(angList1)
            /\ \E res \in {angularDifference_orig(angList0, angList1, units)} :
                   /\ op' = "angularDifference_orig"
                   /\ args' = [angList0 |-> angList0, angList1 |-> angList1,
                               units |-> units]
                   /\ ret' = res.val
                   /\ exc' = res.exc

CallDistanceToFiber ==
    /\ op = "none"
    /\ UNCHANGED <<caller, handle, frame>>
    /\ \E c \in {Raw(<<0, 0, 1>>), Raw(<<2, 0, 0>>), Raw(<<1, 0>>)},
          s \in {Raw(<<0, 0, 1>>), Raw(<<-1, 0, 0>>)},
          q \in FiberBatches, qsym \in {symCi, symC4h}, kwargs \in KeywordArgs :
        \E res \in {distanceToFiber(c, s, q, qsym, kwargs)} :
            /\ op' = "distanceToFiber"
            /\ args' = [c |-> c, s |-> s, q |-> q, qsym |-> qsym, kwargs |-> kwargs]
            /\ ret' = res.val
            /\ exc' = res.exc

CallArccosSafe ==
    /\ op = "none"
    /\ \E x \in CosineArgs :
        LET res == arccosSafe(x)
        IN  /\ op' = "arccosSafe"
            /\ args' = [temp |-> x]
            /\ ret' = res.val
            /\ exc' = res.exc
            /\ caller' = [temp |-> res.x]
            /\ UNCHANGED <<handle, frame>>

Return ==
    /\ op # "none"
    /\ frame = None
    /\ op' = "none"
    /\ args' = <<>>
    /\ ret' = <<>>
    /\ exc' = "none"
    /\ caller' = <<>>
    /\ UNCHANGED <<handle, frame>>

Next ==
    \/ CallFixQuat
    \/ CallInvertQuat
    \/ CallQuatProductMatrix
    \/ CallQuatProduct
    \/ CallQuatOfRotMat
    \/ CallQuatOfAngleAxis
    \/ CallQuatOfExpMap
    \/ CallToFundamentalRegion
    \/ CallMisorientation
    \/ CallDiscreteFiber
    \/ CallMisorientationSelf
    \/ CallQuatOfLaueGroup
    \/ CallQuatAverageCluster
    \/ CallQuatAverage
    \/ CallAngularDifference
    \/ CallArccosSafe
    \/ CallAngularDifferenceOrig
    \/ CallFixQuat3
    \/ CallToFundamentalRegion3
    \/ Return

Spec == Init /\ [][Next]_vars

(***************************************************************************)
(* The calls that take keyword arguments.  mapAngle is followed through    *)
(* its two loops, one pass at a time; a loop is scheduled as long as it    *)
(* has a pass to make.                                                     *)
(***************************************************************************)
CallMapAngle ==
    /\ op = "none"
    /\ \E ang \in MapAngleArrays, rng \in MapRanges, kwargs \in UnitsKeywordArgs :
        \E res \in {mapAngle(ang, rng, kwargs)} :
            /\ op' = "mapAngle"
            /\ args' = [ang |-> ang, range |-> rng, kwargs |-> kwargs]
            /\ ret' = res.val
            /\ exc' = res.exc
            /\ frame' = res.frame
    /\ UNCHANGED <<caller, handle>>

\* while lbi.sum() > 0: ang[lbi] = ang[lbi] + period
MapAngleLower ==
    /\ frame # None
    /\ frame.pc = "lower"
    /\ frame' = IF \E i \in DOMAIN frame.ang : below(frame.ang[i], frame.lb)
                THEN [frame EXCEPT !.ang = Arr([i \in DOMAIN frame.ang |->
                                        IF below(frame.ang[i], frame.lb)
                                        THEN addPeriod(frame.ang[i], 1, frame.period)
                                        ELSE frame.ang[i]])]
                ELSE [frame EXCEPT !.pc = "upper"]
    /\ UNCHANGED <<op, args, ret, exc, caller, handle>>

\* while ubi.sum() > 0: ang[ubi] = ang[ubi] - period; then return ang
MapAngleUpper ==
    /\ frame # None
    /\ frame.pc = "upper"
    /\ IF \E i \in DOMAIN frame.ang : above(frame.ang[i], frame.ub)
       THEN /\ frame' = [frame EXCEPT !.ang = Arr([i \in DOMAIN frame.ang |->
                                        IF above(frame.ang[i], frame.ub)
                                        THEN addPeriod(frame.ang[i], -1, frame.period)
                                        ELSE frame.ang[i]])]
            /\ UNCHANGED ret
       ELSE /\ frame' = None
            /\ ret' = frame.ang
    /\ UNCHANGED <<op, args, exc, caller, handle>>

NextAngle ==
    \/ CallMapAngle
    \/ MapAngleLower
    \/ MapAngleUpper
    \/ CallDistanceToFiber
    \/ Return

SpecAngle ==
    Init /\ [][NextAngle]_vars /\ WF_vars(MapAngleLower) /\ WF_vars(MapAngleUpper)

(***************************************************************************)
(* The life of one RotMatEuler handle: its construction, then any calls    *)
(* of its setters and reads of its rmat property.  A call that raises      *)
(* leaves the handle as the code left it.                                  *)
(***************************************************************************)
Construct ==
    /\ handle = None
    /\ \E angles \in AngleInputs, axes_order \in AxesOrderInputs,
          extrinsic \in ExtrinsicInputs, units \in UnitsInputs :
        LET res == RotMatEuler(angles, axes_order, extrinsic, units)
        IN  /\ op' = "RotMatEuler"
            /\ args' = [angles |-> angles, axes_order |-> axes_order,
                        extrinsic |-> extrinsic, units |-> units]
            /\ ret' = None
            /\ exc' = res.exc
            /\ handle' = res.self
    /\ UNCHANGED <<caller, frame>>

SetAngles ==
    /\ handle # None
    /\ \E x \in AngleInputs :
        LET res == set_angles(handle, x)
        IN  /\ op' = "angles.setter"
            /\ args' = [x |-> x]
            /\ ret' = None
            /\ exc' = res.exc
            /\ handle' = res.self
    /\ UNCHANGED <<caller, frame>>

SetAxesOrder ==
    /\ handle # None
    /\ \E x \in AxesOrderInputs :
        LET res == set_axes_order(handle, x)
        IN  /\ op' = "axes_order.setter"
            /\ args' = [x |-> x]
            /\ ret' = None
            /\ exc' = res.exc
            /\ handle' = res.self
    /\ UNCHANGED <<caller, frame>>

SetExtrinsic ==
    /\ handle # None
    /\ \E x \in ExtrinsicInputs :
        LET res == set_extrinsic(handle, x)
        IN  /\ op' = "extrinsic.setter"
            /\ args' = [x |-> x]
            /\ ret' = None
            /\ exc' = res.exc
            /\ handle' = res.self
    /\ UNCHANGED <<caller, frame>>

SetUnits ==
    /\ handle # None
    /\ \E x \in UnitsInputs :
        LET res == set_units(handle, x)
        IN  /\ op' = "units.setter"
            /\ args' = [x |-> x]
            /\ ret' = None
            /\ exc' = res.exc
            /\ handle' = res.self
    /\ UNCHANGED <<caller, frame>>

ReadRmat ==
    /\ handle # None
    /\ LET res == get_rmat(handle)
       IN  /\ op' = "rmat"
           /\ args' = None
           /\ ret' = res.val
           /\ exc' = res.exc
           /\ handle' = res.self
    /\ UNCHANGED <<caller, frame>>

\* rmat.setter with the matrix of one of the angle inputs, or with something
\* that is no rotation matrix
SetRmat ==
    /\ handle # None
    /\ \E x \in {None} \cup {make_rmat_euler(a, handle._axes_order, handle._extrinsic).val :
                              a \in {b \in AngleInputs : Len(b.n) = 3 /\ b.k = 1}} :
        LET res == set_rmat(handle, x)
        IN  /\ op' = "rmat.setter"
            /\ args' = [x |-> x]
            /\ ret' = None
            /\ exc' = res.exc
            /\ handle' = res.self
    /\ UNCHANGED <<caller, frame>>

\* exponential_map.setter with the exponential map of the matrix of one of
\* the angle inputs, or with two numbers
SetExponentialMap ==
    /\ handle # None
    /\ \E x \in {[len |-> 2, rot |-> None]}
                \cup {[len |-> 3,
                       rot |-> make_rmat_euler(a, handle._axes_order, handle._extrinsic).val] :
                          a \in {b \in AngleInputs : Len(b.n) = 3 /\ b.k = 1}} :
        LET res == set_exponential_map(handle, x)
        IN  /\ op' = "exponential_map.setter"
            /\ args' = [x |-> x]
            /\ ret' = None
            /\ exc' = res.exc
            /\ handle' = res.self
    /\ UNCHANGED <<caller, frame>>

NextEuler ==
    \/ Construct
    \/ SetAngles
    \/ SetAxesOrder
    \/ SetExtrinsic
    \/ SetUnits
    \/ ReadRmat
    \/ SetRmat
    \/ SetExponentialMap

SpecEuler == Init /\ [][NextEuler]_vars

(***************************************************************************)
(* Properties.                                                             *)
(***************************************************************************)
\* the conjugate: scalar part kept, vector part negated
Conj(x) == Surd(<<x.c[1], -x.c[2], -x.c[3], -x.c[4]>>, x.r)

\* C6: quatProductMatrix(q, 'right') applied to h equals
\* quatProductMatrix(h, 'left') applied to q, component for component.
C6_RightOfQIsLeftOfH ==
    (op = "quatProductMatrix" /\ args.mult = "right") =>
        ret = dotMatCol(quatProductMatrix(<<args.h>>, "left")[1], args.q)

\* a product of two quaternions that do not commute, with every component
\* of the result nonzero
C6_Witness ==
    /\ op = "quatProductMatrix"
    /\ args.mult = "right"
    /\ ret # dotMatCol(quatProductMatrix(<<args.q>>, "left")[1], args.h)
    /\ \A i \in 1..4 : ret.c[i] # 0

\* C8: for every nonzero batch q, every column of fixQuat(q) has unit norm
\* and a nonnegative scalar component, and fixQuat(fixQuat(q)) = fixQuat(q).
C8_FixQuatUnitNonnegIdempotent ==
    op = "fixQuat" =>
        /\ Len(ret) = Len(args.q)
        /\ \A j \in DOMAIN ret : IsUnit(ret[j]) /\ ret[j].c[1] >= 0
        /\ fixQuat(ret) = ret

\* a batch of two with a column of negative scalar part and norm other
\* than 1, which fixQuat both rescales and flips
C8_Witness ==
    /\ op = "fixQuat"
    /\ Len(args.q) = 2
    /\ \E j \in DOMAIN args.q :
        /\ args.q[j].c[1] < 0
        /\ ~IsUnit(args.q[j])
        /\ ret[j] = Scale(-1, unitColumn(args.q[j]))

\* C9: for every unit quaternion q, invertQuat(invertQuat(q)) = fixQuat(q),
\* and invertQuat(q) is the conjugate of q up to overall sign, with a
\* nonnegative scalar component.
C9_InvertQuatInvolutionConjugate ==
    op = "invertQuat" =>
        /\ invertQuat(ret) = fixQuat(args.q)
        /\ \A j \in DOMAIN ret :
            /\ ret[j] \in {Conj(args.q[j]), Scale(-1, Conj(args.q[j]))}
            /\ ret[j].c[1] >= 0

\* a batch holding a column with zero scalar part and one with negative
\* scalar part
C9_Witness ==
    /\ op = "invertQuat"
    /\ \E j, k \in DOMAIN args.q :
        /\ args.q[j].c[1] = 0
        /\ args.q[k].c[1] < 0
        /\ ret[k] = Scale(-1, Conj(args.q[k]))

\* the constructors and the product
Constructors == {"quatOfAngleAxis", "quatOfExpMap", "quatOfRotMat", "quatProduct"}

\* C1: every quaternion returned by quatOfAngleAxis, quatOfExpMap,
\* quatOfRotMat and quatProduct has unit norm and a nonnegative scalar
\* component, half-turns (scalar component 0) included.
C1_ConstructorsUnitNonneg ==
    (op \in Constructors /\ exc = "none") =>
        \A j \in DOMAIN ret : IsUnit(ret[j]) /\ ret[j].c[1] >= 0

\* C7: quatProduct(q1, q2) is the sign-fixed Hamilton product q2 * q1,
\* fixQuat(quatProductMatrix(q2, 'left') applied to q1), and its rotation
\* matrix is R(q2) R(q1), column by column.
C7_QuatProductIsFixedHamilton ==
    op = "quatProduct" =>
        \A j \in DOMAIN ret :
            /\ ret[j] = fixQuat(<<dotMatCol(
                            quatProductMatrix(args.q2, "left")[j], args.q1[j])>>)[1]
            /\ _rotmatofquatCol(ret[j]) =
                   matMul(_rotmatofquatCol(args.q2[j]), _rotmatofquatCol(args.q1[j]))

\* C10: rotMatOfQuat(quatOfRotMat(R)) = R for every rotation matrix R, the
\* 24 with entries in {-1, 0, 1} included.
C10_RotMatRoundTrip ==
    op = "quatOfRotMat" => rotMatOfQuat(ret)[1] = args.r_mat

\* the Hamilton product q * g
Hamilton(q, g) ==
    LET a == q.c  b == g.c
    IN  Surd(<< a[1] * b[1] - a[2] * b[2] - a[3] * b[3] - a[4] * b[4],
                a[1] * b[2] + a[2] * b[1] + a[3] * b[4] - a[4] * b[3],
                a[1] * b[3] - a[2] * b[4] + a[3] * b[1] + a[4] * b[2],
                a[1] * b[4] + a[2] * b[3] - a[3] * b[2] + a[4] * b[1] >>, q.r * g.r)

\* q normalized, with the sign that makes the scalar component nonnegative
SignFixed(q) == IF unitColumn(q).c[1] < 0 THEN Scale(-1, unitColumn(q)) ELSE unitColumn(q)

\* the sign-fixed crystal-symmetry equivalence class of q
EqvClass(q, G) == {SignFixed(Hamilton(q, G[i])) : i \in DOMAIN G}

\* the members of the class with the largest scalar component
MaxMembers(q, G) ==
    LET class == EqvClass(q, G)
    IN  {x \in class : \A y \in class : ~Less(x, y)}

\* C3: for every orientation of a batch, toFundamentalRegion returns a
\* member of its sign-fixed equivalence class whose scalar component is at
\* least that of every member of the class.
C3_FundamentalRegionIsMaximalMember ==
    (op = "toFundamentalRegion" /\ exc = "none") =>
        /\ Len(ret) = Len(args.q)
        /\ \A j \in DOMAIN ret : ret[j] \in MaxMembers(args.q[j], args.crysSym)

\* a batch of two different orientations, the second of which is moved by
\* the reduction to a member other than itself
C3_Witness ==
    /\ op = "toFundamentalRegion"
    /\ exc = "none"
    /\ Len(args.q) = 2
    /\ args.q[1] # args.q[2]
    /\ ret[2] # SignFixed(args.q[2])
    /\ Cardinality(EqvClass(args.q[2], args.crysSym)) = 8

\* C4 as stated: toFundamentalRegion(q * g) = toFundamentalRegion(q) for
\* every orientation q and every element g of the group, ties included.
C4_RepresentativeUnique ==
    (op = "toFundamentalRegion" /\ exc = "none") =>
        \A j \in DOMAIN ret : \A i \in DOMAIN args.crysSym :
            toFundamentalRegion(<<Hamilton(args.q[j], args.crysSym[i])>>,
                                args.crysSym, None).val[1] = ret[j]

\* C4 as amended: toFundamentalRegion(q * g) has the scalar component of
\* toFundamentalRegion(q), and is equal to it when exactly one member of
\* the class has the maximal scalar component.
C4_RepresentativeUniqueWithoutTies ==
    (op = "toFundamentalRegion" /\ exc = "none") =>
        \A j \in DOMAIN ret : \A i \in DOMAIN args.crysSym :
            LET qr == toFundamentalRegion(<<Hamilton(args.q[j], args.crysSym[i])>>,
                                          args.crysSym, None).val[1]
            IN  /\ Comp(qr, 1) = Comp(ret[j], 1)
                /\ Cardinality(MaxMembers(args.q[j], args.crysSym)) = 1 => qr = ret[j]

\* an orientation that the reduction moves, whose class of eight has one
\* member of maximal scalar component
C4_Witness ==
    /\ op = "toFundamentalRegion"
    /\ exc = "none"
    /\ \E j \in DOMAIN ret :
        /\ Cardinality(EqvClass(args.q[j], args.crysSym)) = 8
        /\ Cardinality(MaxMembers(args.q[j], args.crysSym)) = 1
        /\ ret[j] # SignFixed(args.q[j])

\* the crystal and sample groups that misorientation works with
SymPair(symArg) ==
    IF ~symArg.given THEN <<symCi, symCi>>
    ELSE IF Len(symArg.sym) = 1 THEN <<symArg.sym[1], symCi>>
    ELSE symArg.sym

\* the class of the target q2k against the reference q1: the sign-fixed
\* gs * q2k * gc * q1^-1, the sample element varying fastest
MisClass(q1, q2k, sym) ==
    LET m == Len(sym[1])
        p == Len(sym[2])
    IN  Arr([r \in 1..(p * m) |->
            SignFixed(Hamilton(Hamilton(Hamilton(sym[2][((r - 1) % p) + 1], q2k),
                                        sym[1][((r - 1) \div p) + 1]),
                               Conj(unitColumn(q1))))])

\* the first member with the largest scalar component
FirstMaxMember(class) ==
    class[CHOOSE i \in DOMAIN class :
            /\ \A k \in DOMAIN class : ~Less(class[i], class[k])
            /\ \A k \in 1..(i - 1) : Less(class[k], class[i])]

\* equal up to the overall sign
SameRotation(x, y) == x = y \/ x = Scale(-1, y)

\* C2: misorientation returns one angle and one minimizing quaternion per
\* column of q2, column k being the first member of target k's class with
\* the largest scalar component.
C2_OneMinimizerPerTarget ==
    (op = "misorientation" /\ exc = "none") =>
        /\ Len(ret.angle) = Len(args.q2)
        /\ Len(ret.mis) = Len(args.q2)
        /\ \A k \in DOMAIN args.q2 :
              SameRotation(ret.mis[k],
                  FirstMaxMember(MisClass(args.q1[1], args.q2[k], SymPair(args.sym))))

\* C5: with a crystal symmetry or none and no sample symmetry,
\* discreteFiber returns a fiber for every point in the degenerate cases
\* too: where s and c are anti-parallel the axis is the null-space vector,
\* elsewhere the normalized bisector, and no call fails.
C5_DegenerateBisectorsHandled ==
    (op = "discreteFiber" /\ args.ssym = None) =>
        /\ exc = "none"
        /\ Len(ret) = Len(args.c)

\* the number of elements the documentation gives for a lower-case tag
DocumentedOrder(t) ==
    CASE t \in {<<"c", "i">>, <<"s", "2">>} -> 1
      [] t = <<"c", "2", "h">> -> 2
      [] t \in {<<"d", "2", "h">>, <<"v", "h">>, <<"c", "4", "h">>} -> 4
      [] t = <<"d", "4", "h">> -> 8
      [] t \in {<<"c", "3", "i">>, <<"s", "6">>} -> 3
      [] t \in {<<"d", "3", "d">>, <<"c", "6", "h">>} -> 6
      [] t \in {<<"d", "6", "h">>, <<"t", "h">>} -> 12
      [] t = <<"o", "h">> -> 24

\* the same rotation: equal quaternions, or opposite ones
SameRotationSq(x, y) ==
    x = y \/ (x.d = y.d /\ x.s = Arr([i \in DOMAIN y.s |-> -y.s[i]]))

\* C11: for each of the 14 tags in any letter case quatOfLaueGroup returns
\* as many quaternions as the documented table says, the first of them the
\* identity and no two of them the same rotation; every other string
\* raises RuntimeError.
C11_LaueGroupOrderIdentityDistinct ==
    (op = "quatOfLaueGroup" /\ args.tag.isStr) =>
        IF \E t \in LaueTags : args.tag.chars \in Spellings(t)
        THEN LET t == CHOOSE t \in LaueTags : args.tag.chars \in Spellings(t)
             IN  /\ exc = "none"
                 /\ Len(ret) = DocumentedOrder(t)
                 /\ ret[1] = [s |-> <<1, 0, 0, 0>>, d |-> 1]
                 /\ \A i, j \in DOMAIN ret : i # j => ~SameRotationSq(ret[i], ret[j])
        ELSE exc = "RuntimeError" /\ ret = <<>>

\* the hexagonal group asked for as 'D6h', with a half-turn about an axis
\* of components 1/2 and sqrt(3)/2 that rounding has turned over
C11_Witness ==
    /\ op = "quatOfLaueGroup"
    /\ args.tag.chars = <<"D", "6", "h">>
    /\ exc = "none"
    /\ Len(ret) = 12
    /\ 9 \in args.flips
    /\ ret[9] = [s |-> <<0, 1, 3, 0>>, d |-> 4]

\* C12: misorientation(q, q, (qsym,)) has maximal scalar component 1, that
\* is angle 2 arccos(1) = 0, and the identity as its minimizing quaternion,
\* for every unit quaternion q and every group qsym that holds the identity.
C12_SelfMisorientationIsZero ==
    (/\ op = "misorientation"
     /\ args.q2 = args.q1
     /\ args.sym.given
     /\ Len(args.sym.sym) = 1
     /\ args.sym.isArray[1]
     /\ \E i \in DOMAIN args.sym.sym[1] : args.sym.sym[1][i] = qId) =>
        /\ exc = "none"
        /\ ret.angle = <<Comp(qId, 1)>>
        /\ ret.mis = <<qId>>

\* a quaternion of negative scalar part that no element of the group of
\* eight fixes, against itself
C12_Witness ==
    /\ op = "misorientation"
    /\ args.q2 = args.q1
    /\ args.q1[1].c[1] < 0
    /\ args.sym.sym = <<symD4h>>
    /\ \A i \in 2..Len(symD4h) :
          ~SameRotation(Hamilton(args.q1[1], symD4h[i]), args.q1[1])
    /\ ret.mis = <<qId>>

\* C13: on one column quatAverage and quatAverageCluster both return the
\* renormalized column, and on two columns both succeed and return the
\* same single quaternion, the midpoint from the misorientation.
C13_AverageShortcutsAgree ==
    (op \in {"quatAverage", "quatAverageCluster"}) =>
        /\ exc = "none"
        /\ Len(ret) = 1
        /\ Len(args.q_in) = 1 => ret = unitVector(args.q_in)
        /\ quatAverage(args.q_in, args.qsym) = [exc |-> "none", val |-> ret]
        /\ quatAverageCluster(args.q_in, args.qsym) = [exc |-> "none", val |-> ret]

\* C14: angularDifference(a, a, units) is 0, angularDifference(a, b, units)
\* equals angularDifference(b, a, units), and no result exceeds half the
\* period of the units.
C14_AngularDifferenceZeroSymmetricBounded ==
    (op = "angularDifference" /\ args.units \in {"degrees", "radians"}) =>
        /\ exc = "none"
        /\ Len(ret) = Len(args.angList0)
        /\ \A i \in DOMAIN ret :
            /\ args.angList0[i] = args.angList1[i] => ret[i] = 0
            /\ 2 * ret[i] <= periodDict[args.units]
        /\ angularDifference_opt(args.angList1, args.angList0, args.units).val = ret

\* two arrays in degrees: one pair of equal angles, and one pair more than
\* half a period apart, whose difference is taken the short way round
C14_Witness ==
    /\ op = "angularDifference"
    /\ args.units = "degrees"
    /\ args.angList0 = <<90, -270>>
    /\ args.angList1 = <<90, 0>>
    /\ ret = <<0, 90>>

\* C15: arccosSafe raises RuntimeError when an element has magnitude above
\* 1.00001, leaving every element as it was; otherwise it returns, and every
\* returned angle is a number (not NaN) between 0 and pi.
C15_ArccosSafeRaisesOrReturnsAngles ==
    op = "arccosSafe" =>
        IF \E i \in DOMAIN args.temp.data : absGreater(args.temp.data[i], 1000010)
        THEN exc = "RuntimeError" /\ caller.temp = args.temp
        ELSE /\ exc = "none"
             /\ Len(ret) = Len(args.temp.data)
             /\ \A i \in DOMAIN ret : ~ret[i].nan /\ 0 <= ret[i].v /\ ret[i].v <= 6

\* C16: after arccosSafe(x) the caller's x holds the values it held before,
\* and after misorientation(q1, q2, sym) the caller's q1, q2 and sym (its
\* length and its elements) are as before.
C16_ArgumentsUnchanged ==
    /\ op = "arccosSafe" => caller.temp = args.temp
    /\ op = "misorientation" =>
        /\ caller.q1 = args.q1
        /\ caller.q2 = args.q2
        /\ caller.sym = args.sym.sym

\* C17: misorientation raises RuntimeError whenever its symmetry argument
\* has 0 or more than 2 entries, and whenever an entry is not a numpy array.
C17_BadSymmetryArgumentRaisesRuntimeError ==
    (/\ op = "misorientation"
     /\ args.sym.given
     /\ \/ Len(args.sym.sym) \notin {1, 2}
        \/ \E i \in DOMAIN args.sym.isArray : ~args.sym.isArray[i]) =>
        exc = "RuntimeError"

\* C18: every call of toFundamentalRegion with a sample symmetry, and every
\* call of discreteFiber with both csym and ssym, ends with
\* NotImplementedError and returns nothing.
C18_SampleSymmetryNotImplemented ==
    /\ (op = "toFundamentalRegion" /\ args.sampSym # None) =>
            exc = "NotImplementedError" /\ ret = None
    /\ (op = "discreteFiber" /\ args.csym # None /\ args.ssym # None) =>
            exc = "NotImplementedError" /\ ret = None

\* C19: in every state of a RotMatEuler handle the stored units are exactly
\* 'degrees' or 'radians' and the stored axes order is one of the 12
\* lower-case orders.
C19_HandleUnitsAndOrderWhitelisted ==
    handle # None =>
        /\ handle._units \in {degrees, radians}
        /\ handle._axes_order \in axes_orders

\* the rmat property as a read that leaves the handle alone
rmatOf(self) == get_rmat(self).val

\* C20: a units change to another unit rescales the stored angles by the
\* factor of the new unit, a units change to the stored unit leaves them,
\* and the rotation matrix read from the handle is the same before and
\* after.
C20_UnitsChangeKeepsRotation ==
    [][(handle # None /\ op' = "units.setter" /\ exc' = "none") =>
            /\ handle'._units = args'.x.chars
            /\ handle'._angles =
                    IF handle._units = args'.x.chars THEN handle._angles
                    ELSE times(conversion_to_dict(args'.x.chars), handle._angles)
            /\ rmatOf(handle') = rmatOf(handle)]_vars

\* the angles of a handle in radians, its units read as the constructor
\* reads them
inRadians(self) ==
    IF lower(self._units) = degrees THEN times(1, self._angles) ELSE self._angles

\* C21: reading rmat returns the matrix of the current angles, axes order,
\* convention and units; and right after rmat is set to a valid matrix
\* (directly or through exponential_map) the stored angles are the Euler
\* angles of that matrix in the current units.
C21_RmatFollowsCurrentState ==
    /\ (handle # None /\ op = "rmat" /\ exc = "none") =>
            ret = make_rmat_euler(inRadians(handle), handle._axes_order,
                                  handle._extrinsic).val
    /\ (op = "rmat.setter" /\ exc = "none") => inRadians(handle) = args.x.radians
    /\ (op = "exponential_map.setter" /\ exc = "none") =>
            inRadians(handle) = args.x.rot.radians

\* C22: a setter that raises leaves angles, axes order, convention and units
\* as they were before the call.
C22_FailedSetterLeavesHandle ==
    [][(/\ handle # None
        /\ op' \in {"angles.setter", "axes_order.setter", "extrinsic.setter",
                    "units.setter", "rmat.setter", "exponential_map.setter"}
        /\ exc' # "none") =>
            /\ handle'._angles = handle._angles
            /\ handle'._axes_order = handle._axes_order
            /\ handle'._extrinsic = handle._extrinsic
            /\ handle'._units = handle._units]_vars

\* a units change to the other unit that fails in the angles setter, on a
\* handle constructed with two angles
C22_Witness ==
    /\ op = "units.setter"
    /\ exc = "RuntimeError"
    /\ args.x.chars = degrees
    /\ handle # None
    /\ handle._units = radians
    /\ Len(handle._angles.n) = 2

\* C24: on a 3-d array of shape (l, 4, n), fixQuat and toFundamentalRegion
\* return an array of the same shape whose entry [i, :, j] is what the
\* function returns for the single quaternion q[i, :, j].
C24_ThreeDimensionalElementwise ==
    /\ op = "fixQuat3" =>
        /\ exc = "none"
        /\ Len(ret) = Len(args.q)
        /\ \A i \in DOMAIN ret :
            /\ Len(ret[i]) = Len(args.q[i])
            /\ \A j \in DOMAIN ret[i] : ret[i][j] = fixQuat(<<args.q[i][j]>>)[1]
    /\ op = "toFundamentalRegion3" =>
        /\ exc = "none"
        /\ Len(ret) = Len(args.q)
        /\ \A i \in DOMAIN ret :
            /\ Len(ret[i]) = Len(args.q[i])
            /\ \A j \in DOMAIN ret[i] :
                ret[i][j] = toFundamentalRegion(<<args.q[i][j]>>, args.crysSym, None).val[1]

\* a (2, 4, 2) array of four different quaternions, reduced by the group of
\* eight: entry [1, :, 2] moves and differs from entry [2, :, 1]
C24_Witness ==
    /\ op = "toFundamentalRegion3"
    /\ args.crysSym = symD4h
    /\ Len(args.q) = 2
    /\ Len(args.q[1]) = 2
    /\ Cardinality({args.q[i][j] : i \in 1..2, j \in 1..2}) = 4
    /\ ret[1][2] # ret[2][1]
    /\ ret[1][2] # unitColumn(args.q[1][2])

\* C26: for both unit systems and all pairs of angles, angularDifference
\* (angularDifference_opt) returns what angularDifference_orig returns, and
\* no element of it is negative.
C26_OptimizedEqualsOriginal ==
    (op = "angularDifference" /\ args.units \in {"degrees", "radians"}) =>
        /\ exc = "none"
        /\ ret = angularDifference_orig(args.angList0, args.angList1, args.units).val
        /\ \A i \in DOMAIN ret : ret[i] >= 0

\* C23: distanceToFiber raises RuntimeError for a keyword other than
\* 'centrosymmetry' and 'bmatrix', mapAngle for a keyword other than 'units',
\* in both before anything is returned or looped over; and the recognised
\* keywords are accepted in any combination.
C23_UnknownKeywordsRaise ==
    /\ op = "distanceToFiber" =>
        /\ (\E i \in DOMAIN args.kwargs :
                args.kwargs[i].key \notin {"centrosymmetry", "bmatrix"}) =>
                    exc = "RuntimeError" /\ ret = None
        /\ (/\ \A i \in DOMAIN args.kwargs :
                  args.kwargs[i].key \in {"centrosymmetry", "bmatrix"}
            /\ Len(args.c.c) = 3) =>
                    exc = "none" /\ Len(ret) = Len(args.q)
    /\ op = "mapAngle" =>
        /\ (\E i \in DOMAIN args.kwargs : args.kwargs[i].key # "units") =>
                exc = "RuntimeError" /\ ret = None /\ frame = None
        /\ (/\ \A i \in DOMAIN args.kwargs :
                  /\ args.kwargs[i].key = "units"
                  /\ lower(args.kwargs[i].units) \in {degrees, radians}
            /\ args.range = None) =>
                exc = "none" /\ Len(ret) = Len(args.ang)

\* distanceToFiber with both options, the metric tensor exchanging x and y,
\* and mapAngle with units spelled with a capital
C23_Witness ==
    \/ /\ op = "distanceToFiber"
       /\ exc = "none"
       /\ Len(args.kwargs) = 2
       /\ args.kwargs[1].key = "bmatrix"
       /\ args.kwargs[1].mat # I3
       /\ args.kwargs[2].key = "centrosymmetry"
       /\ args.kwargs[2].flag
       /\ ret = <<Num(3), Num(0)>>
    \/ /\ op = "mapAngle"
       /\ exc = "none"
       /\ Len(args.kwargs) = 1
       /\ args.kwargs[1].units = <<"D", "e", "g", "r", "e", "e", "s">>
       /\ args.range = None
       /\ args.ang = <<Fin(725)>>
       /\ ret = <<Fin(5)>>

\* the period of a call of mapAngle
periodOf(kwargs) ==
    IF kwargs # <<>> /\ lower(kwargs[Len(kwargs)].units) = degrees
    THEN periodDict.degrees ELSE periodDict.radians

\* a call of mapAngle whose keywords and units are accepted
MapAngleAccepted ==
    /\ op = "mapAngle"
    /\ \A i \in DOMAIN args.kwargs :
          /\ args.kwargs[i].key = "units"
          /\ lower(args.kwargs[i].units) \in {degrees, radians}

\* what mapAngle returns and raises
MapAngleResult ==
    MapAngleAccepted =>
        LET period == periodOf(args.kwargs)
            lb == IF args.range[1] <= args.range[2] THEN args.range[1] ELSE args.range[2]
            ub == IF args.range[1] <= args.range[2] THEN args.range[2] ELSE args.range[1]
        IN  IF args.range = None
            THEN /\ exc = "none"
                 /\ \A i \in DOMAIN ret :
                       /\ ret[i].big = 0
                       /\ 2 * ret[i].v >= -period
                       /\ 2 * ret[i].v < period
            ELSE IF ub - lb # period THEN exc = "RuntimeError"
            ELSE /\ exc = "none"
                 /\ frame = None =>
                       /\ Len(ret) = Len(args.ang)
                       /\ \A i \in DOMAIN ret :
                             /\ ret[i].big = 0
                             /\ lb <= ret[i].v
                             /\ ret[i].v <= ub
                             /\ (ret[i].v - args.ang[i].v) % period = 0

\* C25: mapAngle with a range of one period terminates and returns values
\* in [lb, ub] that differ from the input by whole periods; a range of
\* another span raises RuntimeError; without a range the result lies in
\* [-period/2, period/2).
C25_MapAngleTerminatesInRange ==
    /\ []MapAngleResult
    /\ (frame # None) ~> (frame = None)

====
